---- MODULE Spec2Model ----
(***************************************************************************)
(* A model of the CV builder's pipeline:                                    *)
(*   - normalize_resume_data (src/app.py), the schema normalizer,          *)
(*   - extract_text_from_pdf / words_to_text (src/app.py), the column     *)
(*     aware text extractor,                                               *)
(*   - compute_ats_score (src/resume_helpers.py), the keyword scorer,      *)
(*   - parse_llm_response (src/app.py), the JSON repair of the LLM's text, *)
(*   - generate and generate_jobkit (src/app.py), the request flows.       *)
(*                                                                         *)
(* Python values are modelled as tagged records of one uniform shape.      *)
(* A Python str is a sequence of one-character strings, so that str(),     *)
(* int() and the joins are computed character by character.                *)
(***************************************************************************)
EXTENDS Integers, Sequences, FiniteSets, TLC

VARIABLES
    input,      \* normalizer: the decoded JSON value the caller holds, at call time
    data,       \* normalizer: the caller's object as it is now (mutated in place)
    ret,        \* normalizer: the value returned by the last call
    outcome,    \* normalizer: "none" | "returned" | "raised"
    calls,      \* normalizer: number of calls made (0, 1, 2)
    ret1,       \* normalizer: the value returned by the first call
    pages,      \* extractor: the document's pages
    all_text,   \* extractor: per-page contributions appended so far
    pageNo,     \* extractor: number of pages processed
    appended,   \* extractor: what the last page's iteration appended (none or one text)
    doc,        \* extractor: the returned document text, or NoText before return
    cv_text,    \* scorer, flows: the candidate text
    job_description,    \* scorer, flows: the job description text
    report,     \* scorer, flows: the returned report, or NoReport before the call
    response_text,  \* parser: the text the LLM returned
    parsePc,    \* parser: the strategy to run next, "returned" or "raised"
    tried,      \* parser: the strategies run so far, each with its outcome
    parsed,     \* parser: the returned value, or NotParsed
    route,      \* flows: "generate" or "generate_jobkit"
    request,    \* flows: the request's file and form
    flowPc,     \* flows: the step of the handler to run next, or "done"
    steps,      \* flows: the steps the handler has run, in order
    llm_calls,  \* flows: the number of calls made to the LLM
    status,     \* flows: the HTTP status of the response, 0 before it
    error,      \* flows: the step that raised, "" when none did
    llm_response,   \* flows: the text the LLM returned
    resume_data     \* flows: the handler's resume_data

vars == <<input, data, ret, outcome, calls, ret1, pages, all_text, pageNo, appended, doc,
          cv_text, job_description, report, response_text, parsePc, tried, parsed,
          route, request, flowPc, steps, llm_calls, status, error, llm_response,
          resume_data>>
normVars == <<input, data, ret, outcome, calls, ret1>>
extrVars == <<pages, all_text, pageNo, appended, doc>>
scoreVars == <<cv_text, job_description, report>>
parseVars == <<response_text, parsePc, tried, parsed>>
flowVars == <<route, request, flowPc, steps, llm_calls, status, error, llm_response,
              resume_data>>

(***************************************************************************)
(* Python values                                                           *)
(***************************************************************************)
\* t: the Python type; s: characters of a str; n: an int, a bool (0/1) or a
\* finite float in tenths; l: items of a list, values of a dict; k: keys of a
\* dict, in insertion order (parallel to l).
PyVal(t, s, n, l, k) == [t |-> t, s |-> s, n |-> n, l |-> l, k |-> k]
JStr(s) == PyVal("str", s, 0, <<>>, <<>>)
JInt(n) == PyVal("int", <<>>, n, <<>>, <<>>)
JFloat(tenths) == PyVal("float", <<>>, tenths, <<>>, <<>>)
JInf == PyVal("inf", <<>>, 0, <<>>, <<>>)
JNegInf == PyVal("-inf", <<>>, 0, <<>>, <<>>)
JNaN == PyVal("nan", <<>>, 0, <<>>, <<>>)
JBool(b) == PyVal("bool", <<>>, IF b THEN 1 ELSE 0, <<>>, <<>>)
JNull == PyVal("null", <<>>, 0, <<>>, <<>>)
JList(l) == PyVal("list", <<>>, 0, l, <<>>)
JDict(k, l) == PyVal("dict", <<>>, 0, l, k)
EmptyDict == JDict(<<>>, <<>>)
EmptyList == JList(<<>>)

IsDict(v) == v.t = "dict"
IsList(v) == v.t = "list"
IsStr(v) == v.t = "str"
\* isinstance(v, int) is true of bool too; the normalizer never tests it.
IsPyInt(v) == v.t = "int"
IsPyBool(v) == v.t = "bool"

\* Python truthiness: None, False, 0, 0.0, "", [] and {} are falsy.
Truthy(v) ==
    CASE v.t = "null" -> FALSE
      [] v.t \in {"bool", "int", "float"} -> v.n # 0
      [] v.t = "str" -> v.s # <<>>
      [] v.t \in {"list", "dict"} -> v.l # <<>>
      [] OTHER -> TRUE

(***************************************************************************)
(* dict operations                                                         *)
(***************************************************************************)
KeyIndex(d, key) ==
    IF \E i \in 1..Len(d.k) : d.k[i] = key
    THEN CHOOSE i \in 1..Len(d.k) : d.k[i] = key
    ELSE 0

Has(d, key) == KeyIndex(d, key) # 0

\* d.get(key, default)
Get(d, key, default) ==
    IF Has(d, key) THEN d.l[KeyIndex(d, key)] ELSE default

\* d[key] = val: an existing key keeps its position, a new key is appended.
SetItem(d, key, val) ==
    IF Has(d, key)
    THEN JDict(d.k, [d.l EXCEPT ![KeyIndex(d, key)] = val])
    ELSE JDict(Append(d.k, key), Append(d.l, val))

\* d.setdefault(key, default): only an absent key is set.
SetDefault(d, key, default) ==
    IF Has(d, key) THEN d ELSE SetItem(d, key, default)

(***************************************************************************)
(* str() and int()                                                         *)
(***************************************************************************)
DigitChars == <<"0", "1", "2", "3", "4", "5", "6", "7", "8", "9">>

RECURSIVE NatStr(_)
NatStr(n) ==
    IF n < 10 THEN <<DigitChars[n + 1]>>
    ELSE NatStr(n \div 10) \o <<DigitChars[(n % 10) + 1]>>

IntStr(n) == IF n < 0 THEN <<"-">> \o NatStr(-n) ELSE NatStr(n)

\* repr of a finite float held in tenths: 12.7, 1.0, -0.5
FloatStr(tenths) ==
    LET a == IF tenths < 0 THEN -tenths ELSE tenths
    IN  (IF tenths < 0 THEN <<"-">> ELSE <<>>)
        \o NatStr(a \div 10) \o <<".">> \o <<DigitChars[(a % 10) + 1]>>

RECURSIVE PyStr(_), PyRepr(_), ReprItems(_, _), ReprPairs(_, _)
\* str(v)
PyStr(v) ==
    CASE v.t = "str" -> v.s
      [] OTHER -> PyRepr(v)

\* repr(v); the characters of the model's strings need no escaping (letters,
\* digits, space, and . - + _ @), so repr of a str is the str in single quotes.
PyRepr(v) ==
    CASE v.t = "str" -> <<"'">> \o v.s \o <<"'">>
      [] v.t = "int" -> IntStr(v.n)
      [] v.t = "float" -> FloatStr(v.n)
      [] v.t = "inf" -> <<"i", "n", "f">>
      [] v.t = "-inf" -> <<"-", "i", "n", "f">>
      [] v.t = "nan" -> <<"n", "a", "n">>
      [] v.t = "bool" -> IF v.n = 1 THEN <<"T", "r", "u", "e">>
                         ELSE <<"F", "a", "l", "s", "e">>
      [] v.t = "null" -> <<"N", "o", "n", "e">>
      [] v.t = "list" -> <<"[">> \o ReprItems(v.l, 1) \o <<"]">>
      [] v.t = "dict" -> <<"{">> \o ReprPairs(v, 1) \o <<"}">>

ReprItems(l, i) ==
    IF i > Len(l) THEN <<>>
    ELSE (IF i > 1 THEN <<",", " ">> ELSE <<>>) \o PyRepr(l[i]) \o ReprItems(l, i + 1)

ReprPairs(d, i) ==
    IF i > Len(d.l) THEN <<>>
    ELSE (IF i > 1 THEN <<",", " ">> ELSE <<>>)
         \o PyRepr(JStr(d.k[i])) \o <<":", " ">> \o PyRepr(d.l[i])
         \o ReprPairs(d, i + 1)

IsDigit(c) == \E i \in 1..10 : DigitChars[i] = c
DigitVal(c) == (CHOOSE i \in 1..10 : DigitChars[i] = c) - 1

RECURSIVE StripLeft(_), StripRight(_)
StripLeft(s) == IF s # <<>> /\ Head(s) = " " THEN StripLeft(Tail(s)) ELSE s
StripRight(s) ==
    IF s # <<>> /\ s[Len(s)] = " " THEN StripRight(SubSeq(s, 1, Len(s) - 1)) ELSE s
\* s.strip(), for the one whitespace character of the model's strings
Strip(s) == StripRight(StripLeft(s))

\* The digits of an int literal: digits, with single underscores between digits.
RECURSIVE DigitsOK(_, _)
DigitsOK(s, i) ==
    IF i > Len(s) THEN TRUE
    ELSE IF IsDigit(s[i]) THEN DigitsOK(s, i + 1)
    ELSE s[i] = "_" /\ i > 1 /\ i < Len(s)
         /\ IsDigit(s[i - 1]) /\ IsDigit(s[i + 1]) /\ DigitsOK(s, i + 1)

RECURSIVE DigitsVal(_, _, _)
DigitsVal(s, i, acc) ==
    IF i > Len(s) THEN acc
    ELSE IF s[i] = "_" THEN DigitsVal(s, i + 1, acc)
    ELSE DigitsVal(s, i + 1, 10 * acc + DigitVal(s[i]))

\* int(v): [ok |-> TRUE, n |-> value], or the exception it raises.
IntLiteral(sign, body) ==
    IF body # <<>> /\ DigitsOK(body, 1)
    THEN [ok |-> TRUE, exc |-> "", n |-> sign * DigitsVal(body, 1, 0)]
    ELSE [ok |-> FALSE, exc |-> "ValueError", n |-> 0]

IntOfStripped(b) ==
    IF b # <<>> /\ Head(b) \in {"+", "-"}
    THEN IntLiteral(IF Head(b) = "-" THEN -1 ELSE 1, Tail(b))
    ELSE IntLiteral(1, b)

IntOfStr(s) == IntOfStripped(Strip(s))

PyInt(v) ==
    CASE v.t \in {"int", "bool"} -> [ok |-> TRUE, exc |-> "", n |-> v.n]
      \* truncation toward zero
      [] v.t = "float" ->
            [ok |-> TRUE, exc |-> "",
             n |-> IF v.n < 0 THEN -((-v.n) \div 10) ELSE v.n \div 10]
      [] v.t \in {"inf", "-inf"} -> [ok |-> FALSE, exc |-> "OverflowError", n |-> 0]
      [] v.t = "nan" -> [ok |-> FALSE, exc |-> "ValueError", n |-> 0]
      [] v.t = "str" -> IntOfStr(v.s)
      [] OTHER -> [ok |-> FALSE, exc |-> "TypeError", n |-> 0]

(***************************************************************************)
(* Keys and literals of normalize_resume_data                               *)
(***************************************************************************)
K_name == <<"n", "a", "m", "e">>
K_title == <<"t", "i", "t", "l", "e">>
K_summary == <<"s", "u", "m", "m", "a", "r", "y">>
K_contact == <<"c", "o", "n", "t", "a", "c", "t">>
K_email == <<"e", "m", "a", "i", "l">>
K_phone == <<"p", "h", "o", "n", "e">>
K_location == <<"l", "o", "c", "a", "t", "i", "o", "n">>
K_age == <<"a", "g", "e">>
K_languages == <<"l", "a", "n", "g", "u", "a", "g", "e", "s">>
K_level == <<"l", "e", "v", "e", "l">>
K_percent == <<"p", "e", "r", "c", "e", "n", "t">>
K_certifications == <<"c", "e", "r", "t", "i", "f", "i", "c", "a", "t", "i", "o", "n", "s">>
K_skills == <<"s", "k", "i", "l", "l", "s">>
K_category == <<"c", "a", "t", "e", "g", "o", "r", "y">>
K_items == <<"i", "t", "e", "m", "s">>
K_experience == <<"e", "x", "p", "e", "r", "i", "e", "n", "c", "e">>
K_company == <<"c", "o", "m", "p", "a", "n", "y">>
K_date == <<"d", "a", "t", "e">>
K_bullets == <<"b", "u", "l", "l", "e", "t", "s">>
K_education == <<"e", "d", "u", "c", "a", "t", "i", "o", "n">>
K_degree == <<"d", "e", "g", "r", "e", "e">>
K_school == <<"s", "c", "h", "o", "o", "l">>
K_year == <<"y", "e", "a", "r">>
K_details == <<"d", "e", "t", "a", "i", "l", "s">>
K_in_progress == <<"i", "n", "_", "p", "r", "o", "g", "r", "e", "s", "s">>
K_interests == <<"i", "n", "t", "e", "r", "e", "s", "t", "s">>
K_additional_info == <<"a", "d", "d", "i", "t", "i", "o", "n", "a", "l", "_", "i", "n", "f", "o">>
S_Candidate == <<"C", "a", "n", "d", "i", "d", "a", "t", "e">>
S_Professional == <<"P", "r", "o", "f", "e", "s", "s", "i", "o", "n", "a", "l">>
S_Unknown == <<"U", "n", "k", "n", "o", "w", "n">>
S_Basic == <<"B", "a", "s", "i", "c">>
S_Proficient == <<"P", "r", "o", "f", "i", "c", "i", "e", "n", "t">>
S_Skills == <<"S", "k", "i", "l", "l", "s">>

(***************************************************************************)
(* normalize_resume_data, field by field                                   *)
(***************************************************************************)
\* [str(c) for c in l]
RECURSIVE StrAll(_)
StrAll(l) == IF l = <<>> THEN <<>> ELSE <<JStr(PyStr(Head(l)))>> \o StrAll(Tail(l))

\* The rule of certifications, bullets, interests and additional_info:
\*   if not isinstance(x, list): x = [str(x)] if x else []
\*   [str(i) for i in x]
StrList(x) ==
    IF IsList(x) THEN StrAll(x.l)
    ELSE IF Truthy(x) THEN StrAll(<<JStr(PyStr(x))>>) ELSE <<>>

\* contact
NormContact(d) ==
    LET c0 == Get(d, K_contact, EmptyDict)
        c1 == IF IsDict(c0) THEN c0 ELSE EmptyDict
        c2 == SetDefault(c1, K_email, JStr(<<>>))
        c3 == SetDefault(c2, K_phone, JStr(<<>>))
        c4 == SetDefault(c3, K_location, JStr(<<>>))
    IN  SetDefault(c4, K_age, JStr(<<>>))

\* The except clause of the percent coercion: (ValueError, TypeError).
PercentCaught(exc) == exc \in {"ValueError", "TypeError"}

\* try: lang["percent"] = int(lang["percent"]); except (ValueError, TypeError):
\* lang["percent"] = 50. r is the result of int(). [exc, lang]: exc # "" when
\* int() raised an exception the except clause does not catch, lang then being
\* the entry as the setdefault calls left it.
CoercePercent(lang, r) ==
    IF r.ok THEN [exc |-> "", lang |-> SetItem(lang, K_percent, JInt(r.n))]
    ELSE IF PercentCaught(r.exc)
         THEN [exc |-> "", lang |-> SetItem(lang, K_percent, JInt(50))]
         ELSE [exc |-> r.exc, lang |-> lang]

LangDefaults(lang) ==
    SetDefault(SetDefault(SetDefault(lang, K_name, JStr(S_Unknown)),
                          K_level, JStr(S_Basic)),
               K_percent, JInt(50))

PercentOf(lang) == PyInt(Get(lang, K_percent, JNull))

\* One dict entry of languages
NormLangDefaulted(lang) == CoercePercent(lang, PercentOf(lang))
NormLangDict(lang) == NormLangDefaulted(LangDefaults(lang))

\* A bare-string entry of languages
LangOfStr(s) ==
    JDict(<<K_name, K_level, K_percent>>, <<JStr(s), JStr(S_Proficient), JInt(70)>>)

\* An entry of languages that is no dict: appended when a str, else dropped
LangOfOther(lang) == IF IsStr(lang) THEN <<LangOfStr(lang.s)>> ELSE <<>>

\* The languages loop over langs from entry i on: [exc, out, seen], out the
\* entries appended to normalized_langs, seen the entries of langs as the loop
\* left them (dict entries are updated in place).
RECURSIVE LangLoop(_, _), LangDictStep(_, _, _)
LangLoop(langs, i) ==
    IF i > Len(langs) THEN [exc |-> "", out |-> <<>>, seen |-> <<>>]
    ELSE IF IsDict(langs[i]) THEN LangDictStep(langs, i, NormLangDict(langs[i]))
    ELSE [exc |-> LangLoop(langs, i + 1).exc,
          out |-> LangOfOther(langs[i]) \o LangLoop(langs, i + 1).out,
          seen |-> <<langs[i]>> \o LangLoop(langs, i + 1).seen]

\* e is the result of the body of the loop for the dict entry langs[i]
LangDictStep(langs, i, e) ==
    IF e.exc # ""
    THEN [exc |-> e.exc, out |-> <<>>,
          seen |-> <<e.lang>> \o SubSeq(langs, i + 1, Len(langs))]
    ELSE [exc |-> LangLoop(langs, i + 1).exc,
          out |-> <<e.lang>> \o LangLoop(langs, i + 1).out,
          seen |-> <<e.lang>> \o LangLoop(langs, i + 1).seen]

\* langs = data.get("languages", []); if not isinstance(langs, list): langs = []
LangsOf(d) ==
    IF IsList(Get(d, K_languages, EmptyList)) THEN Get(d, K_languages, EmptyList).l
    ELSE <<>>

\* r is the result of the loop: data["languages"] = normalized_langs, or, on an
\* exception, the object with its languages list as the loop left it.
LangResult(d, r) ==
    IF r.exc # ""
    THEN [exc |-> r.exc, d |-> SetItem(d, K_languages, JList(r.seen))]
    ELSE [exc |-> "", d |-> SetItem(d, K_languages, JList(r.out))]

\* languages: [exc, d]
NormLanguages(d) == LangResult(d, LangLoop(LangsOf(d), 1))

\* skills given as a mapping: one group per pair, in key order
RECURSIVE SkillsOfDict(_, _)
SkillsOfDict(m, i) ==
    IF i > Len(m.k) THEN <<>>
    ELSE <<JDict(<<K_category, K_items>>,
                 <<JStr(m.k[i]),
                   IF IsList(m.l[i]) THEN m.l[i] ELSE JList(<<JStr(PyStr(m.l[i]))>>)>>)>>
         \o SkillsOfDict(m, i + 1)

\* NormSkillEntry that leaves items as they are, without str()
NormSkillEntryRaw(skill) ==
    IF IsDict(skill)
    THEN <<JDict(<<K_category, K_items>>,
                 <<JStr(PyStr(Get(skill, K_category, JStr(S_Skills)))),
                   IF IsList(Get(skill, K_items, EmptyList))
                   THEN Get(skill, K_items, EmptyList)
                   ELSE JList(StrList(Get(skill, K_items, EmptyList)))>>)>>
    ELSE IF IsStr(skill)
         THEN <<JDict(<<K_category, K_items>>, <<JStr(S_Skills), JList(<<skill>>)>>)>>
         ELSE <<>>

\* One entry of the skills list: a one-element sequence, or <<>> when dropped.
NormSkillEntry(skill) ==
    IF IsDict(skill)
    THEN <<JDict(<<K_category, K_items>>,
                 <<JStr(PyStr(Get(skill, K_category, JStr(S_Skills)))),
                   JList(StrList(Get(skill, K_items, EmptyList)))>>)>>
    ELSE IF IsStr(skill)
         THEN <<JDict(<<K_category, K_items>>, <<JStr(S_Skills), JList(<<skill>>)>>)>>
         ELSE <<>>

RECURSIVE SkillLoop(_)
SkillLoop(l) == IF l = <<>> THEN <<>> ELSE NormSkillEntry(Head(l)) \o SkillLoop(Tail(l))

NormSkills(d) ==
    LET s0 == Get(d, K_skills, EmptyList)
        skills == IF IsList(s0) THEN s0.l
                  ELSE IF IsDict(s0) THEN SkillsOfDict(s0, 1) ELSE <<>>
    IN  SetItem(d, K_skills, JList(SkillLoop(skills)))

\* One dict entry of experience
NormJob(job) ==
    LET j1 == SetDefault(job, K_title, JStr(<<>>))
        j2 == SetDefault(j1, K_company, JStr(<<>>))
        j3 == SetDefault(j2, K_date, JStr(<<>>))
        j4 == SetDefault(j3, K_location, JStr(<<>>))
    IN  SetItem(j4, K_bullets, JList(StrList(Get(j4, K_bullets, EmptyList))))

RECURSIVE ExpLoop(_)
ExpLoop(l) ==
    IF l = <<>> THEN <<>>
    ELSE (IF IsDict(Head(l)) THEN <<NormJob(Head(l))>> ELSE <<>>) \o ExpLoop(Tail(l))

NormExperience(d) ==
    LET e0 == Get(d, K_experience, EmptyList)
    IN  SetItem(d, K_experience, JList(ExpLoop(IF IsList(e0) THEN e0.l ELSE <<>>)))

\* One dict entry of education
NormEduItem(item) ==
    LET i1 == SetDefault(item, K_degree, JStr(<<>>))
        i2 == SetDefault(i1, K_school, JStr(<<>>))
        i3 == SetDefault(i2, K_year, JStr(<<>>))
        i4 == SetDefault(i3, K_details, JStr(<<>>))
    IN  SetDefault(i4, K_in_progress, JBool(FALSE))

RECURSIVE EduLoop(_)
EduLoop(l) ==
    IF l = <<>> THEN <<>>
    ELSE (IF IsDict(Head(l)) THEN <<NormEduItem(Head(l))>> ELSE <<>>) \o EduLoop(Tail(l))

NormEducation(d) ==
    LET e0 == Get(d, K_education, EmptyList)
    IN  SetItem(d, K_education, JList(EduLoop(IF IsList(e0) THEN e0.l ELSE <<>>)))

\* certifications, interests, additional_info
NormStrListField(d, key) == SetItem(d, key, JList(StrList(Get(d, key, EmptyList))))

\* name, title, summary
NormScalars(d) ==
    SetDefault(SetDefault(SetDefault(d, K_name, JStr(S_Candidate)),
                          K_title, JStr(S_Professional)),
               K_summary, JStr(<<>>))

\* The fields before languages: name, title, summary, contact
NormFront(d) == SetItem(NormScalars(d), K_contact, NormContact(NormScalars(d)))

\* The fields after languages
NormBack(d) ==
    NormStrListField(
        NormStrListField(
            NormEducation(NormExperience(NormSkills(
                NormStrListField(d, K_certifications)))),
            K_interests),
        K_additional_info)

Returned(d) == [exc |-> "", obj |-> d, ret |-> d]

\* r is the result of the languages block; an exception leaves the function
AfterLanguages(r) ==
    IF r.exc # "" THEN [exc |-> r.exc, obj |-> r.d, ret |-> JNull]
    ELSE Returned(NormBack(r.d))

\* normalize_resume_data(x): [exc, obj, ret]. obj is the object the function
\* worked on, as it left it; ret the returned value (obj itself) when exc = "".
normalize_resume_data(x) ==
    AfterLanguages(NormLanguages(NormFront(IF IsDict(x) THEN x ELSE EmptyDict)))

(***************************************************************************)
(* Sample inputs                                                           *)
(***************************************************************************)
S_Ann == <<"A", "n", "n">>
S_Dev == <<"D", "e", "v">>
S_Go == <<"G", "o">>
S_Rust == <<"R", "u", "s", "t">>
S_Tech == <<"T", "e", "c", "h">>
S_Soft == <<"S", "o", "f", "t">>
S_French == <<"F", "r", "e", "n", "c", "h">>
S_Native == <<"N", "a", "t", "i", "v", "e">>
S_AWS == <<"A", "W", "S">>
S_BSc == <<"B", "S", "c">>
S_yes == <<"y", "e", "s">>
S_mail == <<"a", "@", "b", ".", "c">>
S_42 == <<"4", "2">>
S_neg5 == <<"-", "5">>
S_pad7 == <<" ", "7", " ">>
S_12p5 == <<"1", "2", ".", "5">>
S_abc == <<"a", "b", "c">>
S_1_0 == <<"1", "_", "0">>
S_plus3 == <<"+", "3">>

\* Bounds of the input families
MaxKeys == 2        \* keys of a top-level object (general family)
MaxEntries == 2     \* entries of a languages or skills list, pairs of a skills mapping

\* Values a percent key may hold
PercentSamples ==
    {JInt(80), JInt(150), JInt(-5), JInt(0), JInt(100),
     JStr(S_42), JStr(S_neg5), JStr(S_pad7), JStr(S_12p5), JStr(S_abc), JStr(S_1_0),
     JStr(S_plus3), JStr(<<>>),
     JFloat(127), JFloat(-5), JFloat(999), JBool(TRUE), JBool(FALSE), JNull,
     JNaN, JInf, JNegInf, EmptyList, EmptyDict}

\* Entries of a languages list
LangEntrySamples ==
    {JDict(<<K_percent>>, <<p>>) : p \in PercentSamples}
    \cup {EmptyDict,
          JStr(S_French), JStr(<<>>), JInt(7), JNull, JList(<<JStr(S_French)>>),
          JDict(<<K_name, K_level, K_percent>>, <<JStr(S_French), JStr(S_Native), JInt(100)>>),
          JDict(<<K_level, K_name>>, <<JInt(3), JNull>>)}

\* All sequences over S of length at most n
RECURSIVE SeqsUpTo(_, _)
SeqsUpTo(S, n) ==
    IF n = 0 THEN {<<>>}
    ELSE LET shorter == SeqsUpTo(S, n - 1)
         IN  shorter \cup {<<x>> \o q : x \in S, q \in {r \in shorter : Len(r) = n - 1}}

\* Lists of at most n entries: the first of full, the following ones of core
ListsOf(full, core, n) ==
    {<<>>} \cup {<<x>> \o q : x \in full, q \in SeqsUpTo(core, n - 1)}

\* Entries that follow the first entry of a languages list
LangEntryCore ==
    {JDict(<<K_percent>>, <<JStr(S_42)>>), JDict(<<K_percent>>, <<JInf>>),
     JDict(<<K_percent>>, <<JInt(150)>>), EmptyDict, JStr(S_French), JInt(7)}

\* Values of items, bullets, certifications, interests, additional_info
StrListSamples ==
    {JList(<<JStr(S_Go), JStr(S_Rust)>>), JList(<<JInt(5), JStr(S_Go), JNull>>),
     JList(<<JList(<<JStr(S_Go)>>), JFloat(15)>>), EmptyList,
     JStr(S_Go), JStr(<<>>), JInt(5), JInt(0), JFloat(0), JBool(FALSE), JNull,
     JNaN, EmptyDict, JDict(<<S_Go>>, <<JInt(1)>>)}

\* Values that follow the first value of a skills mapping
StrListCore ==
    {JList(<<JInt(5), JStr(S_Go), JNull>>), JStr(S_Go), JInt(0), JList(<<JStr(S_Rust)>>)}

\* Entries of a skills list
SkillEntrySamples ==
    {JDict(<<K_category, K_items>>, <<JStr(S_Tech), i>>) : i \in StrListSamples}
    \cup {EmptyDict, JDict(<<K_items>>, <<JStr(S_Go)>>),
          JDict(<<K_category>>, <<JNull>>),
          JDict(<<K_items, K_category, K_level>>, <<EmptyList, JInt(3), JInt(1)>>),
          JStr(S_Go), JStr(<<>>), JInt(7), JNull, JList(<<JStr(S_Go)>>)}

\* Entries that follow the first entry of a skills list
SkillEntryCore ==
    {JDict(<<K_category, K_items>>, <<JStr(S_Soft), JList(<<JInt(5), JStr(S_Go)>>)>>),
     JDict(<<K_items>>, <<JStr(S_Go)>>), EmptyDict, JStr(S_Go), JInt(7)}

\* Key sequences of a skills mapping: distinct keys
SkillMapKeys ==
    {q \in SeqsUpTo({S_Tech, S_Soft, <<>>}, MaxEntries) :
        \A i, j \in 1..Len(q) : i # j => q[i] # q[j]}

\* skills given as a mapping: up to MaxEntries pairs, distinct keys
SkillMapSamples ==
    UNION {{JDict(ks, vs) : vs \in {v \in ListsOf(StrListSamples, StrListCore, MaxEntries) :
                                        Len(v) = Len(ks)}} : ks \in SkillMapKeys}

OneKey(key, v) == JDict(<<key>>, <<v>>)

\* The languages family: {"languages": v}
LangInputs ==
    {OneKey(K_languages, JList(q)) : q \in ListsOf(LangEntrySamples, LangEntryCore, MaxEntries)}
    \cup {OneKey(K_languages, v) : v \in {JNull, JStr(S_French), JInt(3), EmptyDict,
                                          OneKey(K_name, JStr(S_French))}}

\* The skills family: {"skills": v}
SkillInputs ==
    {OneKey(K_skills, JList(q)) : q \in ListsOf(SkillEntrySamples, SkillEntryCore, MaxEntries)}
    \cup {OneKey(K_skills, m) : m \in SkillMapSamples}
    \cup {OneKey(K_skills, v) : v \in {JNull, JStr(S_Go), JInt(3), JBool(TRUE)}}

\* The general family: non-objects, and objects of at most MaxKeys of the
\* eleven top-level keys, each holding one of its samples.
TopKeys ==
    <<K_name, K_title, K_summary, K_contact, K_languages, K_certifications,
      K_skills, K_experience, K_education, K_interests, K_additional_info>>

FieldSamples(i) ==
    CASE i = 1 -> {JStr(S_Ann), JInt(5), JNull}
      [] i = 2 -> {JStr(S_Dev), JList(<<JStr(S_Dev)>>)}
      [] i = 3 -> {JStr(<<>>), EmptyDict}
      [] i = 4 -> {JStr(S_mail), EmptyDict, OneKey(K_email, JStr(S_mail)),
                   JDict(<<K_phone, K_age>>, <<JInt(5), JNull>>),
                   JDict(<<K_email, K_phone, K_location, K_age>>,
                         <<JStr(S_mail), JStr(S_42), JStr(S_Go), JStr(S_42)>>)}
      [] i = 5 -> {JNull, EmptyList,
                   JList(<<JStr(S_French)>>),
                   JList(<<OneKey(K_percent, JStr(S_42)), JInt(7)>>),
                   JList(<<OneKey(K_percent, JInt(150))>>),
                   JList(<<OneKey(K_name, JInt(3)), OneKey(K_percent, JInf)>>),
                   JList(<<JDict(<<K_name, K_level, K_percent>>,
                                 <<JStr(S_French), JStr(S_Native), JInt(100)>>)>>)}
      [] i = 6 -> {JStr(S_AWS), JInt(0), JList(<<JStr(S_AWS), JInt(5)>>)}
      [] i = 7 -> {JInt(3), OneKey(S_Tech, JList(<<JStr(S_Go), JStr(S_Rust)>>)),
                   JList(<<JStr(S_Go), OneKey(K_items, JInt(5))>>),
                   JList(<<JDict(<<K_category, K_items>>,
                                 <<JStr(S_Tech), JList(<<JStr(S_Go)>>)>>)>>)}
      [] i = 8 -> {JStr(S_Dev), JList(<<EmptyDict, JInt(5)>>),
                   JList(<<JDict(<<K_title, K_bullets>>, <<JInt(5), JStr(S_Go)>>)>>),
                   JList(<<JDict(<<K_title, K_company, K_date, K_location, K_bullets>>,
                                 <<JStr(S_Dev), JStr(S_Go), JStr(S_42), JStr(S_Go),
                                   JList(<<JStr(S_abc)>>)>>)>>)}
      [] i = 9 -> {JNull, JList(<<EmptyDict, JStr(S_BSc)>>),
                   JList(<<JDict(<<K_degree, K_in_progress>>, <<JStr(S_BSc), JStr(S_yes)>>)>>),
                   JList(<<JDict(<<K_degree, K_school, K_year, K_details, K_in_progress>>,
                                 <<JStr(S_BSc), JStr(S_Go), JStr(S_42), JStr(<<>>),
                                   JBool(TRUE)>>)>>)}
      [] i = 10 -> {JStr(S_Go), EmptyDict, JList(<<JInt(1)>>)}
      [] i = 11 -> {JFloat(0), JNaN, JList(<<JBool(TRUE), JStr(S_Go)>>)}

\* Objects over the keys TopKeys[i..], at most budget of them, in that order
RECURSIVE ObjectsFrom(_, _)
ObjectsFrom(i, budget) ==
    IF i > Len(TopKeys) \/ budget = 0 THEN {EmptyDict}
    ELSE LET with == ObjectsFrom(i + 1, budget - 1)
             samples == FieldSamples(i)
         IN  ObjectsFrom(i + 1, budget)
             \cup {JDict(<<TopKeys[i]>> \o d.k, <<v>> \o d.l) : v \in samples, d \in with}

NonObjectInputs ==
    {JNull, JStr(S_abc), JInt(5), JFloat(127), JInf, JNaN, JBool(TRUE), EmptyList,
     JList(<<OneKey(K_name, JStr(S_Ann))>>)}

GeneralInputs == NonObjectInputs \cup ObjectsFrom(1, MaxKeys)

(***************************************************************************)
(* The normalizer's calls                                                  *)
(***************************************************************************)
\* CallerObject of a normalizer that works on a copy of its argument
CallerObjectCopy(x, r) == x

\* The object the caller holds after a call on x with result r. A dict is
\* worked on in place (setdefault and item assignment on the argument); for any
\* other argument the function rebinds its local name to a fresh {}.
CallerObject(x, r) == IF IsDict(x) THEN r.obj ELSE x

\* The effect of a call on x with result r on the caller's variables
CallEffect(x, r) ==
    /\ outcome' = IF r.exc = "" THEN "returned" ELSE "raised"
    /\ ret' = r.ret
    /\ data' = IF IsDict(data) THEN CallerObject(x, r) ELSE data

\* resume_data = normalize_resume_data(resume_data): the first call
Normalize ==
    /\ calls = 0
    /\ CallEffect(data, normalize_resume_data(data))
    /\ ret1' = ret'
    /\ calls' = 1
    /\ UNCHANGED <<input, extrVars, scoreVars, parseVars, flowVars>>

\* A second call, on the record the first call returned. When the first
\* argument was a dict the returned record is the caller's object itself.
NormalizeAgain ==
    /\ calls = 1
    /\ outcome = "returned"
    /\ CallEffect(ret, normalize_resume_data(ret))
    /\ calls' = 2
    /\ UNCHANGED <<input, ret1, extrVars, scoreVars, parseVars, flowVars>>

(***************************************************************************)
(* extract_text_from_pdf                                                   *)
(***************************************************************************)
\* A page is [width, words, fallback]: words the result of extract_words(), a
\* sequence of [text, x0, top]; fallback the result of extract_text(), <<>>
\* when it is empty or None. width, x0 and top are held in tenths of a unit.
SidebarMarker == <<"=", "=", "=", " ", "S", "I", "D", "E", "B", "A", "R", " ", "=", "=", "=", "\n">>
MainMarker == <<"=", "=", "=", " ", "M", "A", "I", "N", " ", "C", "O", "N", "T", "E", "N", "T", " ", "=", "=", "=", "\n">>
Newline == <<"\n">>

\* sep.join(parts)
RECURSIVE Join(_, _)
Join(sep, parts) ==
    IF parts = <<>> THEN <<>>
    ELSE IF Len(parts) = 1 THEN parts[1]
    ELSE parts[1] \o sep \o Join(sep, Tail(parts))

\* s.strip() is empty: s holds whitespace only
IsBlank(s) == \A i \in 1..Len(s) : s[i] \in {" ", "\n"}

\* Band with truncation in place of round()
BandFloor(top) == 5 * (top \div 50)

\* round(top / 5) * 5, for top in tenths: Python's round() takes a tie to the
\* even neighbour.
Band(top) ==
    IF top % 50 < 25 THEN 5 * (top \div 50)
    ELSE IF top % 50 > 25 THEN 5 * ((top \div 50) + 1)
    ELSE IF (top \div 50) % 2 = 0 THEN 5 * (top \div 50)
    ELSE 5 * ((top \div 50) + 1)

\* IsLeft with the boundary itself on the left
IsLeftOrOn(word, width) == 100 * word.x0 <= 35 * width

\* x["x0"] < mid, mid = w * 0.35 (exact arithmetic)
IsLeft(word, width) == 100 * word.x0 < 35 * width

\* KeyLeq on the band alone, x0 left out of the key
KeyLeqBandOnly(a, b) == Band(a.top) <= Band(b.top)

\* The sort key (round(top / 5) * 5, x0) of a is less than or equal to b's
KeyLeq(a, b) ==
    \/ Band(a.top) < Band(b.top)
    \/ Band(a.top) = Band(b.top) /\ a.x0 <= b.x0

\* sorted(): stable, so a word goes after the words whose key is not greater
RECURSIVE InsertSorted(_, _), Sorted(_)
InsertSorted(ws, w) ==
    IF ws = <<>> THEN <<w>>
    ELSE IF KeyLeq(ws[Len(ws)], w) THEN Append(ws, w)
    ELSE Append(InsertSorted(SubSeq(ws, 1, Len(ws) - 1), w), ws[Len(ws)])

Sorted(ws) ==
    IF ws = <<>> THEN <<>>
    ELSE InsertSorted(Sorted(SubSeq(ws, 1, Len(ws) - 1)), ws[Len(ws)])

RECURSIVE SelectWords(_, _, _)
SelectWords(ws, width, left) ==
    IF ws = <<>> THEN <<>>
    ELSE (IF IsLeft(Head(ws), width) = left THEN <<Head(ws)>> ELSE <<>>)
         \o SelectWords(Tail(ws), width, left)

left_words(page) == Sorted(SelectWords(page.words, page.width, TRUE))
right_words(page) == Sorted(SelectWords(page.words, page.width, FALSE))

\* The loop of words_to_text from word i on, with the lines closed so far and
\* the texts of the current line; the first word opens the first line.
RECURSIVE LineLoop(_, _, _, _)
LineLoop(word_list, i, lines, current_line) ==
    IF i > Len(word_list)
    THEN IF current_line # <<>> THEN Append(lines, Join(<<" ">>, current_line)) ELSE lines
    ELSE IF i > 1 /\ Band(word_list[i].top) # Band(word_list[i - 1].top)
         THEN LineLoop(word_list, i + 1, Append(lines, Join(<<" ">>, current_line)),
                       <<word_list[i].text>>)
         ELSE LineLoop(word_list, i + 1, lines, Append(current_line, word_list[i].text))

words_to_text(word_list) ==
    IF word_list = <<>> THEN <<>>
    ELSE Join(Newline, LineLoop(word_list, 1, <<>>, <<>>))

SidebarPart(left_text) ==
    IF ~IsBlank(left_text) THEN SidebarMarker \o left_text \o <<"\n", "\n">> ELSE <<>>

MainPart(right_text) ==
    IF ~IsBlank(right_text) THEN MainMarker \o right_text ELSE <<>>

\* combined, for a page with words
Combined(page) ==
    SidebarPart(words_to_text(left_words(page)))
    \o MainPart(words_to_text(right_words(page)))

\* What one iteration of the page loop appends to all_text
PageAppends(page) ==
    IF page.words = <<>>
    THEN IF page.fallback # <<>> THEN <<page.fallback>> ELSE <<>>
    ELSE <<Combined(page)>>

\* Bounds of the document family
MaxWords == 2       \* words of the first page
MaxPages == 2       \* pages of a document

\* Positions of a word: x0 100 is left of the boundary of a page 1000 wide,
\* 350 is on it and 600 right of it; tops 1010, 1025, 1030, 1060 are 101,
\* 102.5, 103, 106.
WordPositions == {[x0 |-> x, top |-> t] : x \in {100, 350, 600},
                                          t \in {1010, 1025, 1030, 1060}}

\* The text of the i-th word of a page: one letter, distinct within the page
WordTexts == <<"a", "b", "c", "d", "e", "f">>

WordsAt(ps) ==
    [i \in 1..Len(ps) |-> [text |-> <<WordTexts[i]>>, x0 |-> ps[i].x0, top |-> ps[i].top]]

FallbackSamples == {<<>>, <<"x", " ", "y", "\n", "z">>, <<" ">>}

\* Pages 1000 wide with up to MaxWords words, pages 2000 wide with one word,
\* and pages without words
FirstPageSamples ==
    {[width |-> 1000, words |-> WordsAt(ps), fallback |-> <<"x">>] :
        ps \in SeqsUpTo(WordPositions, MaxWords) \ {<<>>}}
    \cup {[width |-> 2000, words |-> WordsAt(<<p>>), fallback |-> <<"x">>] :
              p \in WordPositions}
    \cup {[width |-> 1000, words |-> <<>>, fallback |-> f] : f \in FallbackSamples}

LaterPageSamples ==
    {[width |-> 1000, words |-> <<>>, fallback |-> <<>>],
     [width |-> 1000, words |-> <<>>, fallback |-> <<"x", " ", "y", "\n", "z">>],
     [width |-> 1000, words |-> WordsAt(<<[x0 |-> 340, top |-> 1010], [x0 |-> 100, top |-> 1010]>>),
      fallback |-> <<>>]}

Documents ==
    {<<>>} \cup {<<p>> \o q : p \in FirstPageSamples,
                             q \in SeqsUpTo(LaterPageSamples, MaxPages - 1)}

NoText == <<"NONE">>

\* One iteration of: for page in pdf.pages
ExtractPage ==
    /\ doc = NoText
    /\ pageNo < Len(pages)
    /\ appended' = PageAppends(pages[pageNo + 1])
    /\ all_text' = all_text \o appended'
    /\ pageNo' = pageNo + 1
    /\ UNCHANGED <<pages, doc, normVars, scoreVars, parseVars, flowVars>>

\* return "\n\n".join(all_text)
ReturnText ==
    /\ doc = NoText
    /\ pageNo = Len(pages)
    /\ doc' = Join(<<"\n", "\n">>, all_text)
    /\ UNCHANGED <<pages, all_text, pageNo, appended, normVars, scoreVars, parseVars, flowVars>>

ExtractorIdle ==
    /\ pages = <<>>
    /\ all_text = <<>>
    /\ pageNo = 0
    /\ appended = <<>>
    /\ doc = NoText

NormalizerIdle ==
    /\ input = JNull
    /\ data = JNull
    /\ ret = JNull
    /\ ret1 = JNull
    /\ outcome = "none"
    /\ calls = 0

NoReport == [score |-> -1, matched |-> <<>>, missing |-> <<>>]

ScorerIdle ==
    /\ cv_text = <<>>
    /\ job_description = <<>>
    /\ report = NoReport

NotParsed == PyVal("unset", <<>>, 0, <<>>, <<>>)

ParserIdle ==
    /\ response_text = <<>>
    /\ parsePc = "idle"
    /\ tried = <<>>
    /\ parsed = NotParsed

NoRequest == [has_pdf |-> FALSE, filename |-> <<>>, job_description |-> <<>>]

FlowIdle ==
    /\ route = "none"
    /\ request = NoRequest
    /\ flowPc = "idle"
    /\ steps = <<>>
    /\ llm_calls = 0
    /\ status = 0
    /\ error = ""
    /\ llm_response = <<>>
    /\ resume_data = JNull

InitExtract ==
    /\ pages \in Documents
    /\ all_text = <<>>
    /\ pageNo = 0
    /\ appended = <<>>
    /\ doc = NoText
    /\ NormalizerIdle
    /\ ScorerIdle
    /\ ParserIdle
    /\ FlowIdle

NextExtract == ExtractPage \/ ReturnText

\* The extractor on the document family
SpecExtract == InitExtract /\ [][NextExtract]_vars

NormInit(inputs) ==
    /\ input \in inputs
    /\ data = input
    /\ ret = JNull
    /\ ret1 = JNull
    /\ outcome = "none"
    /\ calls = 0
    /\ ExtractorIdle
    /\ ScorerIdle
    /\ ParserIdle
    /\ FlowIdle

InitNorm == NormInit(GeneralInputs)
InitLang == NormInit(LangInputs)
InitSkills == NormInit(SkillInputs)

NextNorm == Normalize \/ NormalizeAgain

\* The normalizer on the general family, on {"languages": ...}, on {"skills": ...}
SpecNorm == InitNorm /\ [][NextNorm]_vars
SpecLang == InitLang /\ [][NextNorm]_vars
SpecSkills == InitSkills /\ [][NextNorm]_vars

(***************************************************************************)
(* Properties of the normalizer                                            *)
(***************************************************************************)
Field(rec, key) == Get(rec, key, JNull)
IsStrList(v) == IsList(v) /\ \A i \in 1..Len(v.l) : IsStr(v.l[i])
Entries(rec, key) == IF IsList(Field(rec, key)) THEN Field(rec, key).l ELSE <<>>

\* C1: normalize_resume_data never raises: every call returns a record.
C1_NeverRaises == outcome # "raised"

\* The exception of C1: int() of a non-finite percent, which the except clause
\* (ValueError, TypeError) does not catch.
C1_RaisedState ==
    /\ outcome = "raised"
    /\ \E i \in 1..Len(Entries(input, K_languages)) :
          /\ IsDict(Entries(input, K_languages)[i])
          /\ Field(Entries(input, K_languages)[i], K_percent) \in {JInf, JNegInf}

\* C2: normalize(normalize(x)) equals normalize(x) for any input x: the first
\* call returns a record, and a call on that record returns an equal record.
C2_Idempotent ==
    /\ calls >= 1 => outcome = "returned"
    /\ calls = 2 => ret = ret1

\* C2 on the inputs on which the first call returns
C2_IdempotentOnReturn == calls = 2 => (outcome = "returned" /\ ret = ret1)

C2_SecondCallState ==
    /\ calls = 2 /\ outcome = "returned" /\ ret = ret1
    /\ IsDict(input) /\ ret1 # input
    /\ Field(input, K_languages) = JList(<<JStr(S_French)>>)

\* C3: for any input the output has the eleven top-level keys and contact has
\* email, phone, location and age; for the empty object every one has its
\* default.
ContactKeys == <<K_email, K_phone, K_location, K_age>>
SequenceKeys ==
    <<K_languages, K_certifications, K_skills, K_experience, K_education,
      K_interests, K_additional_info>>

HasAllFields(rec) ==
    /\ IsDict(rec)
    /\ \A i \in 1..Len(TopKeys) : Has(rec, TopKeys[i])
    /\ IsDict(Field(rec, K_contact))
    /\ \A i \in 1..Len(ContactKeys) : Has(Field(rec, K_contact), ContactKeys[i])

HasDefaults(rec) ==
    /\ Field(rec, K_name) = JStr(S_Candidate)
    /\ Field(rec, K_title) = JStr(S_Professional)
    /\ Field(rec, K_summary) = JStr(<<>>)
    /\ \A i \in 1..Len(ContactKeys) : Field(Field(rec, K_contact), ContactKeys[i]) = JStr(<<>>)
    /\ \A i \in 1..Len(SequenceKeys) : Field(rec, SequenceKeys[i]) = EmptyList

C3_TotalCoverage ==
    calls >= 1 => /\ HasAllFields(ret)
                  /\ input = EmptyDict => HasDefaults(ret)

\* C3 on the inputs on which the call returns
C3_CoverageOnReturn ==
    outcome = "returned" => /\ HasAllFields(ret)
                            /\ input = EmptyDict => HasDefaults(ret)

C3_EmptyObjectState == calls = 1 /\ outcome = "returned" /\ input = EmptyDict

\* C4: after normalization every field has its declared type, whatever the
\* type of the value the input supplied for it.
AllStr(rec, keys) == \A i \in 1..Len(keys) : IsStr(Field(rec, keys[i]))

DeclaredTypes(rec) ==
    /\ AllStr(rec, <<K_name, K_title, K_summary>>)
    /\ AllStr(Field(rec, K_contact), ContactKeys)
    /\ \A i \in 1..Len(Entries(rec, K_experience)) :
          /\ AllStr(Entries(rec, K_experience)[i], <<K_title, K_company, K_date, K_location>>)
          /\ IsStrList(Field(Entries(rec, K_experience)[i], K_bullets))
    /\ \A i \in 1..Len(Entries(rec, K_education)) :
          /\ AllStr(Entries(rec, K_education)[i], <<K_degree, K_school, K_year, K_details>>)
          /\ IsPyBool(Field(Entries(rec, K_education)[i], K_in_progress))
    /\ \A i \in 1..Len(Entries(rec, K_languages)) :
          AllStr(Entries(rec, K_languages)[i], <<K_name, K_level>>)
    /\ IsStrList(Field(rec, K_certifications))
    /\ IsStrList(Field(rec, K_interests))
    /\ IsStrList(Field(rec, K_additional_info))

C4_DeclaredTypes == outcome = "returned" => DeclaredTypes(ret)

\* The part of C4 the code does ensure: the list-of-string fields
C4_StringLists ==
    outcome = "returned" =>
        /\ IsStrList(Field(ret, K_certifications))
        /\ IsStrList(Field(ret, K_interests))
        /\ IsStrList(Field(ret, K_additional_info))
        /\ \A i \in 1..Len(Entries(ret, K_experience)) :
              IsStrList(Field(Entries(ret, K_experience)[i], K_bullets))

\* C5: after normalization every entry of languages has a percent that is an
\* integer from 0 to 100.
C5_PercentRange ==
    outcome = "returned" =>
        \A i \in 1..Len(Entries(ret, K_languages)) :
            /\ IsPyInt(Field(Entries(ret, K_languages)[i], K_percent))
            /\ Field(Entries(ret, K_languages)[i], K_percent).n \in 0..100

\* The part of C5 the code does ensure: percent is an integer
C5_PercentIsInt ==
    outcome = "returned" =>
        \A i \in 1..Len(Entries(ret, K_languages)) :
            IsPyInt(Field(Entries(ret, K_languages)[i], K_percent))

\* C6 as stated: a call does not modify the value passed to it.
C6_ArgumentUnmodified == data = input

\* C6 amended: an object argument is modified in place, so that after a call
\* that returns the caller's object is the returned record; an argument that
\* is not an object is not modified.
C6_ModifiedInPlace ==
    /\ (outcome = "returned" /\ IsDict(input)) => data = ret
    /\ ~IsDict(input) => data = input

C6_ModifiedState ==
    /\ calls = 1 /\ outcome = "returned" /\ IsDict(input)
    /\ data = ret /\ data # input
    /\ Entries(input, K_languages) # <<>>
    /\ IsDict(Entries(input, K_languages)[1])
    /\ Entries(data, K_languages)[1] # Entries(input, K_languages)[1]

\* C7: skills normalization. Expected values, from the claim's words.
\* items of a list entry: a list of strings; a non-list non-empty value wrapped
\* as a one-element list; a falsy non-list value becoming [].
C7_Items(v) ==
    IF IsList(v) THEN JList(StrAll(v.l))
    ELSE IF Truthy(v) THEN JList(<<JStr(PyStr(v))>>) ELSE EmptyList

C7_Group(category, items) == JDict(<<K_category, K_items>>, <<category, items>>)

\* One entry of a skills list (the category passes through str(), which
\* leaves a string as it is)
C7_ListEntry(e) ==
    IF IsDict(e)
    THEN <<C7_Group(JStr(PyStr(Get(e, K_category, JStr(S_Skills)))),
                    C7_Items(Get(e, K_items, EmptyList)))>>
    ELSE IF IsStr(e) THEN <<C7_Group(JStr(S_Skills), JList(<<e>>))>> ELSE <<>>

RECURSIVE C7_Concat(_, _, _)
C7_Concat(Op(_), l, i) ==
    IF i > Len(l) THEN <<>> ELSE Op(l[i]) \o C7_Concat(Op, l, i + 1)

\* One pair of a skills mapping, as stated: items is the value if it is a
\* list, else [str(value)]
C7_PairAsStated(m, i) ==
    C7_Group(JStr(m.k[i]),
             IF IsList(m.l[i]) THEN m.l[i] ELSE JList(<<JStr(PyStr(m.l[i]))>>))

\* One pair of a skills mapping, amended: the entries of a list value are
\* each passed through str()
C7_PairAmended(m, i) ==
    C7_Group(JStr(m.k[i]),
             IF IsList(m.l[i]) THEN JList(StrAll(m.l[i].l))
             ELSE JList(<<JStr(PyStr(m.l[i]))>>))

C7_Expected(v, Pair(_, _)) ==
    IF IsDict(v) THEN JList([i \in 1..Len(v.k) |-> Pair(v, i)])
    ELSE IF IsList(v) THEN JList(C7_Concat(C7_ListEntry, v.l, 1))
    ELSE EmptyList

C7_SkillsAsStated ==
    calls = 1 => /\ outcome = "returned"
                 /\ Field(ret, K_skills) = C7_Expected(Field(input, K_skills), C7_PairAsStated)

C7_SkillsAmended ==
    calls = 1 => /\ outcome = "returned"
                 /\ Field(ret, K_skills) = C7_Expected(Field(input, K_skills), C7_PairAmended)

C7_MappingState ==
    /\ calls = 1 /\ outcome = "returned"
    /\ Field(input, K_skills) = OneKey(S_Tech, JList(<<JInt(5), JStr(S_Go), JNull>>))
    /\ Field(ret, K_skills) =
          JList(<<C7_Group(JStr(S_Tech),
                           JList(<<JStr(<<"5">>), JStr(S_Go), JStr(<<"N", "o", "n", "e">>)>>))>>)

\* C8: languages normalization. Expected values, from the claim's words.
C8_Percent(e) ==
    IF ~Has(e, K_percent) THEN JInt(50)
    ELSE IF PyInt(Field(e, K_percent)).ok THEN JInt(PyInt(Field(e, K_percent)).n)
    ELSE JInt(50)

C8_Entry(e) ==
    IF IsDict(e)
    THEN <<SetItem(SetDefault(SetDefault(SetDefault(e, K_name, JStr(S_Unknown)),
                                         K_level, JStr(S_Basic)),
                              K_percent, JInt(50)),
                   K_percent, C8_Percent(e))>>
    ELSE IF IsStr(e)
         THEN <<JDict(<<K_name, K_level, K_percent>>, <<e, JStr(S_Proficient), JInt(70)>>)>>
         ELSE <<>>

C8_Expected(v) ==
    IF IsList(v) THEN JList(C7_Concat(C8_Entry, v.l, 1)) ELSE EmptyList

C8_Languages ==
    calls = 1 => /\ outcome = "returned"
                 /\ Field(ret, K_languages) = C8_Expected(Field(input, K_languages))

\* C8 on the inputs on which the call returns
C8_LanguagesOnReturn ==
    (calls = 1 /\ outcome = "returned") =>
        Field(ret, K_languages) = C8_Expected(Field(input, K_languages))

C8_FrenchState ==
    /\ calls = 1 /\ outcome = "returned"
    /\ input = OneKey(K_languages, JList(<<JStr(S_French)>>))
    /\ Field(ret, K_languages) =
          JList(<<JDict(<<K_name, K_level, K_percent>>,
                        <<JStr(S_French), JStr(S_Proficient), JInt(70)>>)>>)

(***************************************************************************)
(* Properties of the extractor                                             *)
(***************************************************************************)
\* The page the last iteration worked on
LastPage == pages[pageNo]

\* The first index from i on at which m occurs in t, 0 when it does not
RECURSIVE FirstFrom(_, _, _)
FirstFrom(t, m, i) ==
    IF i + Len(m) - 1 > Len(t) THEN 0
    ELSE IF SubSeq(t, i, i + Len(m) - 1) = m THEN i
    ELSE FirstFrom(t, m, i + 1)

IndexOf(t, m) == FirstFrom(t, m, 1)

Occurs(t, m) == IndexOf(t, m) # 0

\* No line break strictly between the positions i and j of t
NoBreak(t, i, j) ==
    /\ i # 0 /\ j # 0
    /\ \A k \in 1..Len(t) : ((i < k /\ k < j) \/ (j < k /\ k < i)) => t[k] # "\n"

\* Two texts of t are emitted on one line: no line break between them
OnOneLine(t, a, b) == NoBreak(t, IndexOf(t, a), IndexOf(t, b))

\* x0 < 0.35 * width, in the claims' words
C_Left(word, width) == 100 * word.x0 < 35 * width

\* round(top / 5) * 5 in the claims' words, for top in tenths: the multiple of
\* 5 nearest to top, the even multiple on a tie (Python's round)
C_Band(top) ==
    LET lo == 50 * (top \div 50)
    IN  IF top - lo < (lo + 50) - top THEN lo
        ELSE IF top - lo > (lo + 50) - top THEN lo + 50
        ELSE IF (lo \div 50) % 2 = 0 THEN lo ELSE lo + 50

\* Pairs of distinct words of the last page that are in one column
ColumnPairs ==
    {p \in (1..Len(LastPage.words)) \X (1..Len(LastPage.words)) :
        /\ p[1] # p[2]
        /\ C_Left(LastPage.words[p[1]], LastPage.width)
              = C_Left(LastPage.words[p[2]], LastPage.width)}

Tops(p) == {LastPage.words[p[1]].top, LastPage.words[p[2]].top}
PairOnOneLine(p) ==
    OnOneLine(appended[1], LastPage.words[p[1]].text, LastPage.words[p[2]].text)
SameBand(p) == C_Band(LastPage.words[p[1]].top) = C_Band(LastPage.words[p[2]].top)

\* C9 as stated: within one column, tops 101 and 103 are emitted on one line,
\* tops 101 and 106 on separate lines, and two tokens share a line exactly
\* when round(top / 5) * 5 is equal for both.
C9_LinesAsStated ==
    (pageNo >= 1 /\ LastPage.words # <<>>) =>
        \A p \in ColumnPairs :
            /\ Tops(p) = {1010, 1030} => PairOnOneLine(p)
            /\ Tops(p) = {1010, 1060} => ~PairOnOneLine(p)
            /\ PairOnOneLine(p) <=> SameBand(p)

\* C9 amended: within one column, tops 101 and 103 are in different bands (100
\* and 105) and are emitted on separate lines, tops 103 and 106 are in the same
\* band (105) and are emitted on one line, tops 101 and 106 on separate lines,
\* and two tokens share a line exactly when round(top / 5) * 5 is equal for
\* both.
C9_LinesAmended ==
    (pageNo >= 1 /\ LastPage.words # <<>>) =>
        \A p \in ColumnPairs :
            /\ Tops(p) = {1010, 1030} => ~PairOnOneLine(p)
            /\ Tops(p) = {1030, 1060} => PairOnOneLine(p)
            /\ Tops(p) = {1010, 1060} => ~PairOnOneLine(p)
            /\ PairOnOneLine(p) <=> SameBand(p)

C9_SeparateLinesState ==
    /\ pageNo >= 1 /\ LastPage.words # <<>>
    /\ \E p \in ColumnPairs : Tops(p) = {1010, 1030} /\ ~PairOnOneLine(p)

\* C10: a page whose tokens are all left of 0.35 * width has a SIDEBAR section
\* and no MAIN CONTENT section; all right of it, a MAIN CONTENT section and no
\* SIDEBAR section; with both groups, SIDEBAR precedes MAIN CONTENT; a page
\* with no tokens contributes its fallback text unmodified, and nothing when
\* the fallback is empty; a document with no extractable text yields "".
SidebarTitle == <<"=", "=", "=", " ", "S", "I", "D", "E", "B", "A", "R", " ", "=", "=", "=">>
MainTitle == <<"=", "=", "=", " ", "M", "A", "I", "N", " ", "C", "O", "N", "T", "E", "N", "T", " ", "=", "=", "=">>

SomeLeft(page) == \E i \in 1..Len(page.words) : C_Left(page.words[i], page.width)
SomeRight(page) == \E i \in 1..Len(page.words) : ~C_Left(page.words[i], page.width)
NoExtractableText(page) == page.words = <<>> /\ page.fallback = <<>>

C10_PageSections(page, out) ==
    /\ page.words # <<>> =>
          /\ Len(out) = 1
          /\ SomeLeft(page) <=> Occurs(out[1], SidebarTitle)
          /\ SomeRight(page) <=> Occurs(out[1], MainTitle)
          /\ (SomeLeft(page) /\ SomeRight(page)) =>
                IndexOf(out[1], SidebarTitle) < IndexOf(out[1], MainTitle)
    /\ (page.words = <<>> /\ page.fallback # <<>>) => out = <<page.fallback>>
    /\ NoExtractableText(page) => out = <<>>

LimbBits == 13
FracLimbs == 4
LimbBase == 8192        \* 2^LimbBits

RECURSIVE Pow2(_)
Pow2(n) == IF n = 0 THEN 1 ELSE 2 * Pow2(n - 1)

RECURSIVE BitLength(_)
BitLength(n) == IF n = 0 THEN 0 ELSE 1 + BitLength(n \div 2)

\* The number of doublings of a that bring it to b or above
RECURSIVE Doublings(_, _)
Doublings(a, b) == IF a >= b THEN 0 ELSE 1 + Doublings(2 * a, b)

\* n limbs of the binary expansion of r / t, r < t
RECURSIVE QuotientLimbs(_, _, _)
QuotientLimbs(r, t, n) ==
    IF n = 0 THEN <<>>
    ELSE <<(r * LimbBase) \div t>> \o QuotientLimbs((r * LimbBase) % t, t, n - 1)

\* What is left of r after n limbs
RECURSIVE QuotientRest(_, _, _)
QuotientRest(r, t, n) ==
    IF n = 0 THEN r ELSE QuotientRest((r * LimbBase) % t, t, n - 1)

\* m + 1, limb by limb from the last; the result's first entry may reach 2
RECURSIVE Increment(_)
Increment(m) ==
    IF Len(m) = 1 THEN <<m[1] + 1>>
    ELSE IF m[Len(m)] + 1 < LimbBase
         THEN SubSeq(m, 1, Len(m) - 1) \o <<m[Len(m)] + 1>>
         ELSE Increment(SubSeq(m, 1, Len(m) - 1)) \o <<0>>

\* m * 2^exp rounded up, or not; 2^53 is 2^52 * 2
Rounded(m, exp, up) ==
    IF ~up THEN [m |-> m, exp |-> exp]
    ELSE IF Increment(m)[1] = 2
         THEN [m |-> <<1>> \o [i \in 1..FracLimbs |-> 0], exp |-> exp + 1]
         ELSE [m |-> Increment(m), exp |-> exp]

IsOdd(m) == m[Len(m)] % 2 = 1

\* a / b for integers 0 < a <= b: the quotient's first 53 bits by long
\* division of a * 2^z by b, the remainder deciding the rounding
DivideScaled(a, b, z) ==
    Rounded(<<a \div b>> \o QuotientLimbs(a % b, b, FracLimbs),
            0 - (z + LimbBits * FracLimbs),
            \/ 2 * QuotientRest(a % b, b, FracLimbs) > b
            \/ /\ 2 * QuotientRest(a % b, b, FracLimbs) = b
               /\ IsOdd(QuotientLimbs(a % b, b, FracLimbs)))

FloatDiv(a, b) == DivideScaled(a * Pow2(Doublings(a, b)), b, Doublings(a, b))

\* The limbs of m * k for a small natural k, from the last limb; the first
\* entry takes what is carried out
RECURSIVE TimesNat(_, _, _)
TimesNat(m, k, carry) ==
    IF Len(m) = 1 THEN <<m[1] * k + carry>>
    ELSE TimesNat(SubSeq(m, 1, Len(m) - 1), k, (m[Len(m)] * k + carry) \div LimbBase)
         \o <<(m[Len(m)] * k + carry) % LimbBase>>

\* wide shifted right by d bits, d < LimbBits: the first entry becomes 1
ShiftRight(wide, d) ==
    [i \in 1..Len(wide) |->
        IF i = 1 THEN wide[1] \div Pow2(d)
        ELSE (wide[i - 1] % Pow2(d)) * Pow2(LimbBits - d) + wide[i] \div Pow2(d)]

\* The exact product wide * 2^exp rounded to 53 bits: d bits are dropped
RoundProduct(wide, exp, d) ==
    IF d = 0 THEN [m |-> wide, exp |-> exp]
    ELSE Rounded(ShiftRight(wide, d), exp + d,
                 \/ wide[Len(wide)] % Pow2(d) > Pow2(d - 1)
                 \/ /\ wide[Len(wide)] % Pow2(d) = Pow2(d - 1)
                    /\ IsOdd(ShiftRight(wide, d)))

\* x * k for a double x and a natural k, 0 < k < LimbBase
FloatTimes(x, k) ==
    RoundProduct(TimesNat(x.m, k, 0), x.exp, BitLength(TimesNat(x.m, k, 0)[1]) - 1)

\* int(x) for a double x < LimbBase: the bits of x left of the binary point
FloatToInt(x) ==
    IF LimbBits * FracLimbs + 1 + x.exp <= 0 THEN 0
    ELSE (x.m[1] * LimbBase + x.m[2]) \div Pow2(0 - x.exp - LimbBits * (FracLimbs - 1))

\* int((score / total_weight) * 100) for 0 <= score <= total_weight, 0 < total_weight
Percent(score, total_weight) ==
    IF score = 0 THEN 0
    ELSE FloatToInt(FloatTimes(FloatDiv(score, total_weight), 100))

(***************************************************************************)
(* compute_ats_score (src/resume_helpers.py)                               *)
(***************************************************************************)
\* A text is a sequence of one-character strings over ASCII letters, digits,
\* punctuation and whitespace.
UpperCase == <<"A", "B", "C", "D", "E", "F", "G", "H", "I", "J", "K", "L", "M",
               "N", "O", "P", "Q", "R", "S", "T", "U", "V", "W", "X", "Y", "Z">>
LowerCase == <<"a", "b", "c", "d", "e", "f", "g", "h", "i", "j", "k", "l", "m",
               "n", "o", "p", "q", "r", "s", "t", "u", "v", "w", "x", "y", "z">>

\* text.lower(), one character
Lower(c) ==
    IF \E i \in 1..Len(UpperCase) : UpperCase[i] = c
    THEN LowerCase[CHOOSE i \in 1..Len(UpperCase) : UpperCase[i] = c]
    ELSE c

\* \s, and what split() splits on
IsSpace(c) == c \in {" ", "\t", "\n", "\r", "\f"}

\* [a-z0-9]
IsLowerAlnum(c) == (\E i \in 1..Len(LowerCase) : LowerCase[i] = c) \/ IsDigit(c)

\* text = text.lower(); text = re.sub(r'[^a-z0-9\s]', ' ', text)
CleanText(text) ==
    SubSeq([i \in 1..Len(text) |->
               IF IsLowerAlnum(Lower(text[i])) \/ IsSpace(Lower(text[i]))
               THEN Lower(text[i]) ELSE " "], 1, Len(text))

\* The indices of t at which a word starts, ascending
WordStarts(t) ==
    SelectSeq([i \in 1..Len(t) |-> i],
              LAMBDA i : ~IsSpace(t[i]) /\ (i = 1 \/ IsSpace(t[i - 1])))

\* The last index of the word that starts at s
WordEnd(t, s) ==
    CHOOSE e \in s..Len(t) : /\ \A k \in s..e : ~IsSpace(t[k])
                             /\ e = Len(t) \/ IsSpace(t[e + 1])

WordsAtStarts(t, starts) ==
    SubSeq([k \in 1..Len(starts) |-> SubSeq(t, starts[k], WordEnd(t, starts[k]))],
           1, Len(starts))

\* text.split(): the maximal runs without whitespace, in order
Split(t) == WordsAtStarts(t, WordStarts(t))

\* stop_words
stop_words ==
    {<<"a">>, <<"a", "n">>, <<"t", "h", "e">>, <<"a", "n", "d">>, <<"o", "r">>,
     <<"b", "u", "t">>, <<"i", "n">>, <<"o", "n">>, <<"a", "t">>, <<"t", "o">>,
     <<"f", "o", "r">>, <<"w", "i", "t", "h">>, <<"b", "y">>, <<"o", "f">>,
     <<"i", "s">>, <<"a", "r", "e">>, <<"w", "a", "s">>, <<"w", "e", "r", "e">>,
     <<"b", "e">>, <<"b", "e", "e", "n">>, <<"b", "e", "i", "n", "g">>,
     <<"h", "a", "v", "e">>, <<"h", "a", "s">>, <<"h", "a", "d">>, <<"d", "o">>,
     <<"d", "o", "e", "s">>, <<"d", "i", "d">>, <<"c", "a", "n">>,
     <<"c", "o", "u", "l", "d">>, <<"w", "i", "l", "l">>, <<"w", "o", "u", "l", "d">>,
     <<"s", "h", "a", "l", "l">>, <<"s", "h", "o", "u", "l", "d">>, <<"m", "a", "y">>,
     <<"m", "i", "g", "h", "t">>, <<"m", "u", "s", "t">>, <<"i">>, <<"y", "o", "u">>,
     <<"h", "e">>, <<"s", "h", "e">>, <<"i", "t">>, <<"w", "e">>,
     <<"t", "h", "e", "y">>, <<"t", "h", "a", "t">>, <<"t", "h", "i", "s">>,
     <<"t", "h", "e", "s", "e">>, <<"t", "h", "o", "s", "e">>, <<"f", "r", "o", "m">>,
     <<"a", "s">>, <<"i", "f">>, <<"w", "h", "e", "n">>, <<"w", "h", "e", "r", "e">>,
     <<"w", "h", "y">>, <<"h", "o", "w">>, <<"a", "l", "l">>, <<"a", "n", "y">>,
     <<"b", "o", "t", "h">>, <<"e", "a", "c", "h">>, <<"f", "e", "w">>,
     <<"m", "o", "r", "e">>, <<"m", "o", "s", "t">>, <<"o", "t", "h", "e", "r">>,
     <<"s", "o", "m", "e">>, <<"s", "u", "c", "h">>, <<"n", "o">>, <<"n", "o", "r">>,
     <<"n", "o", "t">>, <<"o", "n", "l", "y">>, <<"o", "w", "n">>,
     <<"s", "a", "m", "e">>, <<"s", "o">>, <<"t", "h", "a", "n">>, <<"t", "o", "o">>,
     <<"v", "e", "r", "y">>}

\* w not in stop_words and len(w) > 2
IsKeyword(w) == w \notin stop_words /\ Len(w) > 2

\* A keyword map is [words, counts]: the keys in insertion order and their counts
InFreq(freq, w) == \E i \in 1..Len(freq.words) : freq.words[i] = w
KeyPosition(freq, w) == CHOOSE i \in 1..Len(freq.words) : freq.words[i] = w
CountOf(freq, w) == freq.counts[KeyPosition(freq, w)]

\* The indices at which a keyword occurs for the first time, ascending: the
\* order in which the loop inserts the keys
FirstOccurrences(keywords) ==
    SelectSeq([i \in 1..Len(keywords) |-> i],
              LAMBDA i : \A j \in 1..(i - 1) : keywords[j] # keywords[i])

Occurrences(keywords, w) == Cardinality({i \in 1..Len(keywords) : keywords[i] = w})

\* freq = {}; for w in keywords: freq[w] = freq.get(w, 0) + 1
FreqAt(keywords, first) ==
    [words |-> SubSeq([k \in 1..Len(first) |-> keywords[first[k]]], 1, Len(first)),
     counts |-> SubSeq([k \in 1..Len(first) |-> Occurrences(keywords, keywords[first[k]])],
                       1, Len(first))]

Frequencies(keywords) == FreqAt(keywords, FirstOccurrences(keywords))

extract_keywords(text) == Frequencies(SelectSeq(Split(CleanText(text)), IsKeyword))

\* jd_keywords.items()
Items(freq) ==
    SubSeq([i \in 1..Len(freq.words) |-> [word |-> freq.words[i], weight |-> freq.counts[i]]],
           1, Len(freq.words))

\* The place of items[i] in the stable sort by descending weight: behind the
\* heavier items and the earlier items of equal weight
Place(items, i) ==
    1 + Cardinality({j \in 1..Len(items) :
                        \/ items[j].weight > items[i].weight
                        \/ items[j].weight = items[i].weight /\ j < i})

\* sorted(items, key=lambda x: x[1], reverse=True)
SortedDescending(items) ==
    SubSeq([p \in 1..Len(items) |->
               items[CHOOSE i \in 1..Len(items) : Place(items, i) = p]], 1, Len(items))

sorted_jd(jd_keywords) == SortedDescending(Items(jd_keywords))

\* l[:n]
Prefix(l, n) == SubSeq(l, 1, IF Len(l) < n THEN Len(l) ELSE n)

\* Every keyword of the job description, without the cut at 20
all_keywords(jd_keywords) == sorted_jd(jd_keywords)

\* sorted_jd[:20]
top_keywords(jd_keywords) == Prefix(sorted_jd(jd_keywords), 20)

Min(a, b) == IF a < b THEN a ELSE b

\* One iteration of: for word, weight in top_keywords
Tallied(acc, item, cv_keywords) ==
    IF InFreq(cv_keywords, item.word)
    THEN [score |-> acc.score + Min(CountOf(cv_keywords, item.word), item.weight),
          total_weight |-> acc.total_weight + item.weight,
          matched |-> Append(acc.matched, item.word),
          missing |-> acc.missing]
    ELSE [score |-> acc.score,
          total_weight |-> acc.total_weight + item.weight,
          matched |-> acc.matched,
          missing |-> Append(acc.missing, item.word)]

\* The loop over the first n of the top keywords
RECURSIVE TallyLoop(_, _, _)
TallyLoop(top, cv_keywords, n) ==
    IF n = 0 THEN [score |-> 0, total_weight |-> 0, matched |-> <<>>, missing |-> <<>>]
    ELSE Tallied(TallyLoop(top, cv_keywords, n - 1), top[n], cv_keywords)

\* final_score before the boost
BaseScore(score, total_weight) ==
    IF total_weight > 0 THEN Percent(score, total_weight) ELSE 0

\* The boost without its cap
BoostedUncapped(final_score) == IF final_score > 0 THEN final_score + 10 ELSE final_score

\* if final_score > 0: final_score = min(100, final_score + 10)
Boosted(final_score) == IF final_score > 0 THEN Min(100, final_score + 10) ELSE final_score

Report(tally) ==
    [score |-> Boosted(BaseScore(tally.score, tally.total_weight)),
     matched |-> Prefix(tally.matched, 10),
     missing |-> Prefix(tally.missing, 10)]

\* The boost applied to the report of an empty keyword map
EmptyReportBoosted == [score |-> 10, matched |-> <<>>, missing |-> <<>>]

\* return {"score": 0, "matched": [], "missing": []}
EmptyReport == [score |-> 0, matched |-> <<>>, missing |-> <<>>]

Scored(jd_keywords, cv_keywords) ==
    IF jd_keywords.words = <<>> THEN EmptyReport
    ELSE Report(TallyLoop(top_keywords(jd_keywords), cv_keywords,
                          Len(top_keywords(jd_keywords))))

compute_ats_score(cv, jd) == Scored(extract_keywords(jd), extract_keywords(cv))

(***************************************************************************)
(* compute_ats_score: the texts scored and the call                        *)
(***************************************************************************)
T_empty == <<>>
T_stop == <<"t", "h", "e", " ", "a", "n", "d", " ", "o", "f">>
T_short == <<"t", "o", " ", "b", "e", " ", "o", "r", " ", "n", "o", "t", " ", "t", "o", " ", "b", "e", ",", " ", "a", "1", " ", "b", "2", " ", "c", "+">>
T_know == <<"I", " ", "k", "n", "o", "w", " ", "p", "y", "t", "h", "o", "n", " ", "w", "e", "l", "l">>
T_ppj == <<"p", "y", "t", "h", "o", "n", " ", "p", "y", "t", "h", "o", "n", " ", "j", "a", "v", "a">>
T_mixed == <<"P", "y", "t", "h", "o", "n", ",", " ", "J", "A", "V", "A", ";", " ", "g", "o", "!", "\t", "G", "o", "-", "l", "a", "n", "g">>
T_blank == <<" ", "\n", "\t">>
T_anything == <<"a", "n", "y", "t", "h", "i", "n", "g">>
T_node == <<"N", "o", "d", "e", ".", "j", "s", " ", "n", "o", "d", "e", " ", "j", "s", " ", "(", "N", "O", "D", "E", ")">>
T_sql == <<"S", "Q", "L", " ", "a", "n", "d", " ", "p", "y", "t", "h", "o", "n", ";", " ", "s", "q", "l", "\n", "p", "y", "t", "h", "o", "n", "3", " ", "j", "a", "v", "a">>

\* Texts as a person writes them
PhraseSamples == {T_empty, T_stop, T_short, T_know, T_ppj, T_mixed, T_blank, T_anything, T_node, T_sql}

MaxRepeat == 29     \* repetitions of one keyword in a text
MaxKeywords == 22   \* distinct keywords of a job description

W_python == <<"p", "y", "t", "h", "o", "n">>
W_java == <<"j", "a", "v", "a">>

\* The word w, n times, a space behind each
Repeat(w, n) ==
    SubSeq([i \in 1..(n * (Len(w) + 1)) |->
               IF i % (Len(w) + 1) = 0 THEN " " ELSE w[i % (Len(w) + 1)]],
           1, n * (Len(w) + 1))

RepeatSamples == {0, 1, 2, 3, 21, MaxRepeat}

\* Job descriptions and candidate texts that repeat python and java
RepeatJobs == {Repeat(W_python, a) \o Repeat(W_java, b) : a, b \in RepeatSamples}
RepeatCandidates ==
    {Repeat(W_java, b) \o Repeat(W_python, a) : a \in {0, 1, MaxRepeat}, b \in {0, 1}}

\* The i-th keyword, i < 100: k01, k02, ...
Keyword(i) == <<"k", DigitChars[(i \div 10) + 1], DigitChars[(i % 10) + 1]>>

\* The keywords numbered by idx, in that order, a space behind each
Listing(idx) ==
    SubSeq([i \in 1..(4 * Len(idx)) |->
               IF i % 4 = 0 THEN " " ELSE Keyword(idx[((i - 1) \div 4) + 1])[i % 4]],
           1, 4 * Len(idx))

UpTo(n) == [i \in 1..n |-> i]
EveryThird(n) == SelectSeq(UpTo(n), LAMBDA i : i % 3 = 0)
EverySixth(n) == SelectSeq(UpTo(n), LAMBDA i : i % 6 = 0)
Odd(n) == SelectSeq(UpTo(n), LAMBDA i : i % 2 = 1)

\* Job descriptions of n distinct keywords: each once; some twice and three
\* times; the last one twice
KeywordJobs(n) ==
    {Listing(UpTo(n)),
     Listing(UpTo(n)) \o Listing(EveryThird(n)) \o Listing(EverySixth(n)),
     Listing(UpTo(n)) \o Listing(IF n = 0 THEN <<>> ELSE <<n>>)}

\* Candidate texts: no keyword, every keyword, the odd ones, every third
\* one, the first 12
KeywordCandidates(n) ==
    {<<>>, Listing(UpTo(n)), Listing(Odd(n)), Listing(EveryThird(n)),
     Listing(UpTo(IF n < 12 THEN n ELSE 12))}

\* The pairs <<cv_text, job_description>> scored
ScoreInputs ==
    (PhraseSamples \X PhraseSamples)
    \cup (RepeatCandidates \X RepeatJobs)
    \cup UNION {KeywordCandidates(n) \X KeywordJobs(n) : n \in 0..MaxKeywords}

\* ats_analysis = compute_ats_score(cv_text, job_description)
Score ==
    /\ report = NoReport
    /\ report' = compute_ats_score(cv_text, job_description)
    /\ UNCHANGED <<cv_text, job_description, normVars, extrVars, parseVars, flowVars>>

InitScore ==
    /\ \E p \in ScoreInputs : cv_text = p[1] /\ job_description = p[2]
    /\ report = NoReport
    /\ NormalizerIdle
    /\ ExtractorIdle
    /\ ParserIdle
    /\ FlowIdle

NextScore == Score

\* The scorer on the text pairs
SpecScore == InitScore /\ [][NextScore]_vars

(***************************************************************************)
(* Properties of compute_ats_score                                         *)
(***************************************************************************)
HasReport == report # NoReport

\* C11: for every pair of texts the returned score is an integer with
\* 0 <= score <= 100, and matched and missing have at most 10 entries each.
C11_ScoreBound ==
    HasReport => /\ report.score \in 0..100
               /\ Len(report.matched) <= 10
               /\ Len(report.missing) <= 10

\* A job description with more than 10 keywords, all of them in the
\* candidate text: the score is at its bound and matched is cut to 10
C11_FullMatchState ==
    /\ HasReport
    /\ Len(extract_keywords(job_description).words) > 10
    /\ \A i \in 1..Len(extract_keywords(job_description).words) :
          InFreq(extract_keywords(cv_text), extract_keywords(job_description).words[i])
    /\ report.score = 100
    /\ Len(report.matched) = 10

\* A letter or digit, in either case
C12_IsAlnum(c) == IsLowerAlnum(Lower(c))

\* The last index of the run of letters and digits that starts at s
C12_RunEnd(text, s) ==
    CHOOSE e \in s..Len(text) : /\ \A k \in s..e : C12_IsAlnum(text[k])
                                /\ e = Len(text) \/ ~C12_IsAlnum(text[e + 1])

C12_Lowered(run) == [i \in 1..Len(run) |-> Lower(run[i])]

\* The text yields no keyword: each of its runs of letters and digits is a
\* stop word or has at most 2 characters
C12_NoKeywords(text) ==
    \A s \in 1..Len(text) :
        (C12_IsAlnum(text[s]) /\ (s = 1 \/ ~C12_IsAlnum(text[s - 1]))) =>
            \/ C12_RunEnd(text, s) - s + 1 <= 2
            \/ C12_Lowered(SubSeq(text, s, C12_RunEnd(text, s))) \in stop_words

\* C12: when the job description yields an empty keyword map (empty text, or
\* only stop words, tokens of length <= 2 and non-alphanumeric characters) the
\* report is exactly {score: 0, matched: [], missing: []} whatever the
\* candidate text is; every other pair of texts gets a report too.
C12_EmptyJob ==
    HasReport =>
        /\ DOMAIN report = {"score", "matched", "missing"}
        /\ report.score >= 0
        /\ C12_NoKeywords(job_description) =>
              report = [score |-> 0, matched |-> <<>>, missing |-> <<>>]

\* A job description of stop words and short tokens only, scored against a
\* candidate text that has keywords
C12_StopWordJobState ==
    /\ HasReport
    /\ job_description # <<>>
    /\ \E i \in 1..Len(job_description) : C12_IsAlnum(job_description[i])
    /\ C12_NoKeywords(job_description)
    /\ extract_keywords(cv_text).words # <<>>
    /\ report.score = 0

\* The sum of the first n entries of a sequence of numbers
RECURSIVE C13_Sum(_, _)
C13_Sum(numbers, n) == IF n = 0 THEN 0 ELSE numbers[n] + C13_Sum(numbers, n - 1)

\* total_weight: the sum of the job-description counts of the top keywords
C13_TotalWeight(top) == C13_Sum([i \in 1..Len(top) |-> top[i].weight], Len(top))

\* score: the sum, over the top keywords that occur in the candidate map, of
\* min(candidate_count, jd_count)
C13_Score(top, cv_keywords) ==
    C13_Sum([i \in 1..Len(top) |->
                IF InFreq(cv_keywords, top[i].word)
                THEN IF CountOf(cv_keywords, top[i].word) < top[i].weight
                     THEN CountOf(cv_keywords, top[i].word) ELSE top[i].weight
                ELSE 0], Len(top))

\* floor(100 * score / total_weight), 0 when total_weight is 0
C13_Floor(score, total_weight) ==
    IF total_weight = 0 THEN 0 ELSE (100 * score) \div total_weight

\* The value when it is 0, min(100, value + 10) when it is greater
C13_Returned(value) ==
    IF value = 0 THEN 0 ELSE IF value + 10 > 100 THEN 100 ELSE value + 10

C13_Expected(top, cv_keywords) ==
    C13_Returned(C13_Floor(C13_Score(top, cv_keywords), C13_TotalWeight(top)))

C13_Contains(words, w) == \E i \in 1..Len(words) : words[i] = w

\* C13 as stated: the returned score is floor(100 * score / total_weight),
\* plus 10 and capped at 100 when it is greater than 0; "python python java"
\* against "I know python well" gives matched containing python, missing
\* containing java and 0 < score <= 100.
C13_Formula ==
    HasReport =>
        /\ report.score = C13_Expected(top_keywords(extract_keywords(job_description)),
                                       extract_keywords(cv_text))
        /\ (job_description = T_ppj /\ cv_text = T_know) =>
              /\ C13_Contains(report.matched, W_python)
              /\ C13_Contains(report.missing, W_java)
              /\ 0 < report.score /\ report.score <= 100

\* The keywords of a text, with repetitions, in the order of the text
C14_Keywords(text) == SelectSeq(Split(CleanText(text)), IsKeyword)

\* The distinct keywords in order of first occurrence
C14_Distinct(kws) ==
    SubSeq([k \in 1..Len(FirstOccurrences(kws)) |-> kws[FirstOccurrences(kws)[k]]],
           1, Len(FirstOccurrences(kws)))

\* The frequency of each distinct keyword
C14_Counts(kws, distinct) ==
    SubSeq([k \in 1..Len(distinct) |->
               Cardinality({i \in 1..Len(kws) : kws[i] = distinct[k]})], 1, Len(distinct))

\* The rank of each distinct keyword: higher frequency first, equal
\* frequencies in order of first occurrence
C14_Ranks(counts) ==
    SubSeq([k \in 1..Len(counts) |->
               1 + Cardinality({j \in 1..Len(counts) :
                                   \/ counts[j] > counts[k]
                                   \/ counts[j] = counts[k] /\ j < k})], 1, Len(counts))

\* The keywords of rank 1 to 20, by rank
C14_Ranked(distinct, ranks) ==
    SubSeq([p \in 1..Len(ranks) |-> distinct[CHOOSE k \in 1..Len(ranks) : ranks[k] = p]],
           1, IF Len(ranks) < 20 THEN Len(ranks) ELSE 20)

C14_Considered(kws) ==
    C14_Ranked(C14_Distinct(kws), C14_Ranks(C14_Counts(kws, C14_Distinct(kws))))

C14_First10(l) == SubSeq(l, 1, IF Len(l) < 10 THEN Len(l) ELSE 10)

C14_Lists(considered, cvkws) ==
    /\ report.matched =
          C14_First10(SelectSeq(considered, LAMBDA w : C13_Contains(cvkws, w)))
    /\ report.missing =
          C14_First10(SelectSeq(considered, LAMBDA w : ~C13_Contains(cvkws, w)))

\* C14: only the 20 highest-frequency job-description keywords are
\* considered, equal frequencies ranked in order of first occurrence; each of
\* them is in matched when it occurs in the candidate keyword map and in
\* missing when it does not; the returned lists are the first 10 of each, in
\* descending job-description frequency order.
C14_KeywordLists ==
    HasReport => C14_Lists(C14_Considered(C14_Keywords(job_description)),
                           C14_Keywords(cv_text))

\* More than 20 keywords with equal and unequal frequencies, a keyword
\* beyond the first 20 occurs in the candidate text, and fewer than 10 of
\* the first 20 do
C14_BeyondTwentyState ==
    /\ HasReport
    /\ Len(extract_keywords(job_description).words) > 20
    /\ \E i \in 21..Len(all_keywords(extract_keywords(job_description))) :
          InFreq(extract_keywords(cv_text),
                 all_keywords(extract_keywords(job_description))[i].word)
    /\ \E i, j \in 1..20 :
          all_keywords(extract_keywords(job_description))[i].weight
             > all_keywords(extract_keywords(job_description))[j].weight
    /\ Len(report.matched) \in 1..9
    /\ Len(report.missing) = 10

(***************************************************************************)
(* Token conservation of the extractor                                     *)
(***************************************************************************)
\* The positions of the output at which a text starts
C17_Positions(out, text) ==
    {k \in 1..Len(out) : k + Len(text) - 1 <= Len(out)
                         /\ SubSeq(out, k, k + Len(text) - 1) = text}

C17_Position(out, text) == CHOOSE k \in C17_Positions(out, text) : TRUE

\* A position is in the SIDEBAR section: after its title and before the
\* title of MAIN CONTENT when there is one
C17_InSidebar(out, k) ==
    /\ Occurs(out, SidebarTitle)
    /\ k > IndexOf(out, SidebarTitle)
    /\ Occurs(out, MainTitle) => k < IndexOf(out, MainTitle)

C17_InMain(out, k) == Occurs(out, MainTitle) /\ k > IndexOf(out, MainTitle)

\* The key (band, x0) of a is strictly before the key of b
C17_Before(a, b) ==
    \/ C_Band(a.top) < C_Band(b.top)
    \/ C_Band(a.top) = C_Band(b.top) /\ a.x0 < b.x0

C17_Once(page, out) ==
    \A i \in 1..Len(page.words) :
        /\ Cardinality(C17_Positions(out, page.words[i].text)) = 1
        /\ C17_InSidebar(out, C17_Position(out, page.words[i].text))
              <=> C_Left(page.words[i], page.width)
        /\ C17_InMain(out, C17_Position(out, page.words[i].text))
              <=> ~C_Left(page.words[i], page.width)

C17_Ordered(page, out) ==
    \A i, j \in 1..Len(page.words) :
        (/\ C_Left(page.words[i], page.width) = C_Left(page.words[j], page.width)
         /\ C17_Before(page.words[i], page.words[j]))
        => C17_Position(out, page.words[i].text) < C17_Position(out, page.words[j].text)

JsonWs == {" ", "\t", "\n", "\r"}

\* The first index from i on whose character is not in S, Len(t) + 1 when
\* there is none
SkipChars(t, i, S) ==
    CHOOSE j \in i..(Len(t) + 1) :
        /\ j = Len(t) + 1 \/ t[j] \notin S
        /\ \A k \in i..(j - 1) : t[k] \in S

\* m occurs in t at index k
Matches(t, m, k) == k >= 1 /\ k + Len(m) - 1 <= Len(t) /\ SubSeq(t, k, k + Len(m) - 1) = m

\* The first index from i on at which m occurs in t, 0 when there is none
Find(t, m, i) ==
    IF \E k \in i..Len(t) : Matches(t, m, k)
    THEN CHOOSE k \in i..Len(t) : Matches(t, m, k) /\ \A j \in i..(k - 1) : ~Matches(t, m, j)
    ELSE 0

\* The last index at which the character c occurs in t, 0 when there is none
FindLast(t, c) ==
    IF \E k \in 1..Len(t) : t[k] = c
    THEN CHOOSE k \in 1..Len(t) : t[k] = c /\ \A j \in (k + 1)..Len(t) : t[j] # c
    ELSE 0

\* The result of scanning a value: ok with the value and the index after it,
\* or not ok (JSONDecodeError)
DecodeError == [ok |-> FALSE, val |-> JNull, end |-> 0]
Decoded(v, e) == [ok |-> TRUE, val |-> v, end |-> e]

\* The index of the quote that closes the string opened at i, 0 when the
\* string is not terminated or holds a control character
StringEnd(t, i) ==
    IF Find(t, <<"\"">>, i + 1) = 0 THEN 0
    ELSE IF \E k \in (i + 1)..(Find(t, <<"\"">>, i + 1) - 1) : t[k] \in {"\n", "\t", "\r", "\f"}
    THEN 0
    ELSE Find(t, <<"\"">>, i + 1)

StringValue(t, i, e) ==
    IF e = 0 THEN DecodeError ELSE Decoded(JStr(SubSeq(t, i + 1, e - 1)), e + 1)

\* The index after the integer whose digits start at d: "0" alone, or a
\* digit run starting with a non-zero digit; 0 when there is no digit
NumberEnd(t, d) ==
    IF d > Len(t) \/ ~IsDigit(t[d]) THEN 0
    ELSE IF t[d] = "0" THEN d + 1
    ELSE SkipChars(t, d, {DigitChars[k] : k \in 1..10})

NumberValue(t, sign, d, e) ==
    IF e = 0 THEN DecodeError
    ELSE Decoded(JInt(sign * DigitsVal(SubSeq(t, d, e - 1), 1, 0)), e)

L_null == <<"n", "u", "l", "l">>
L_true == <<"t", "r", "u", "e">>
L_false == <<"f", "a", "l", "s", "e">>
L_NaN == <<"N", "a", "N">>
L_Infinity == <<"I", "n", "f", "i", "n", "i", "t", "y">>

\* scan_once at index i, and the loops of JSONObject and JSONArray
RECURSIVE ValueAt(_, _), MembersFrom(_, _, _), MemberKey(_, _, _, _),
          MemberColon(_, _, _, _), MemberValue(_, _, _, _), MemberNext(_, _, _),
          ItemsFrom(_, _, _), ItemValue(_, _, _), ItemNext(_, _, _)
ValueAt(t, i) ==
    IF i > Len(t) THEN DecodeError
    ELSE IF t[i] = "\"" THEN StringValue(t, i, StringEnd(t, i))
    ELSE IF t[i] = "{" THEN
        (IF SkipChars(t, i + 1, JsonWs) <= Len(t) /\ t[SkipChars(t, i + 1, JsonWs)] = "}"
         THEN Decoded(EmptyDict, SkipChars(t, i + 1, JsonWs) + 1)
         ELSE MembersFrom(t, SkipChars(t, i + 1, JsonWs), EmptyDict))
    ELSE IF t[i] = "[" THEN
        (IF SkipChars(t, i + 1, JsonWs) <= Len(t) /\ t[SkipChars(t, i + 1, JsonWs)] = "]"
         THEN Decoded(EmptyList, SkipChars(t, i + 1, JsonWs) + 1)
         ELSE ItemsFrom(t, SkipChars(t, i + 1, JsonWs), <<>>))
    ELSE IF Matches(t, L_null, i) THEN Decoded(JNull, i + 4)
    ELSE IF Matches(t, L_true, i) THEN Decoded(JBool(TRUE), i + 4)
    ELSE IF Matches(t, L_false, i) THEN Decoded(JBool(FALSE), i + 5)
    ELSE IF Matches(t, L_NaN, i) THEN Decoded(JNaN, i + 3)
    ELSE IF Matches(t, L_Infinity, i) THEN Decoded(JInf, i + 8)
    ELSE IF Matches(t, <<"-">> \o L_Infinity, i) THEN Decoded(JNegInf, i + 9)
    ELSE IF t[i] = "-" THEN NumberValue(t, -1, i + 1, NumberEnd(t, i + 1))
    ELSE NumberValue(t, 1, i, NumberEnd(t, i))

\* A member of an object is expected at i: its key is a string
MembersFrom(t, i, d) ==
    IF i > Len(t) \/ t[i] # "\"" THEN DecodeError
    ELSE MemberKey(t, i, d, StringEnd(t, i))

MemberKey(t, i, d, e) ==
    IF e = 0 THEN DecodeError
    ELSE MemberColon(t, d, SubSeq(t, i + 1, e - 1), SkipChars(t, e + 1, JsonWs))

MemberColon(t, d, key, c) ==
    IF c > Len(t) \/ t[c] # ":" THEN DecodeError
    ELSE MemberValue(t, d, key, ValueAt(t, SkipChars(t, c + 1, JsonWs)))

MemberValue(t, d, key, r) ==
    IF ~r.ok THEN DecodeError
    ELSE MemberNext(t, SetItem(d, key, r.val), SkipChars(t, r.end, JsonWs))

\* After a member: "}" closes the object, "," must be followed by a member
MemberNext(t, d, n) ==
    IF n > Len(t) THEN DecodeError
    ELSE IF t[n] = "}" THEN Decoded(d, n + 1)
    ELSE IF t[n] = "," THEN MembersFrom(t, SkipChars(t, n + 1, JsonWs), d)
    ELSE DecodeError

ItemsFrom(t, i, l) == ItemValue(t, l, ValueAt(t, i))

ItemValue(t, l, r) ==
    IF ~r.ok THEN DecodeError
    ELSE ItemNext(t, Append(l, r.val), SkipChars(t, r.end, JsonWs))

\* After an item: "]" closes the array, "," must be followed by a value
ItemNext(t, l, n) ==
    IF n > Len(t) THEN DecodeError
    ELSE IF t[n] = "]" THEN Decoded(JList(l), n + 1)
    ELSE IF t[n] = "," THEN ItemsFrom(t, SkipChars(t, n + 1, JsonWs), l)
    ELSE DecodeError

\* The value must end the text, whitespace apart
WholeText(s, r) ==
    IF r.ok /\ SkipChars(s, r.end, JsonWs) = Len(s) + 1 THEN r ELSE DecodeError

json_loads(s) == WholeText(s, ValueAt(s, SkipChars(s, 1, JsonWs)))

(***************************************************************************)
(* parse_llm_response                                                      *)
(***************************************************************************)
\* s.strip()
PyStrip(s) ==
    IF \A k \in 1..Len(s) : IsSpace(s[k]) THEN <<>>
    ELSE SubSeq(s, SkipChars(s, 1, {" ", "\t", "\n", "\r", "\f"}),
                CHOOSE k \in 1..Len(s) :
                    ~IsSpace(s[k]) /\ \A j \in (k + 1)..Len(s) : IsSpace(s[j]))

\* json.loads(text)
DirectParse(text) == json_loads(text)

\* The grave accent U+0060, a character no TLA+ string can hold: the one
\* character of the model's texts that is written as a word
Grave == "GRAVE"
FenceMark == <<Grave, Grave, Grave>>
L_json == <<"j", "s", "o", "n">>

\* The index after the opening fence at p and its optional "json"
FenceContent(text, p) == IF Matches(text, L_json, p + 3) THEN p + 7 ELSE p + 3

\* The search for a fence, an optional "json", whitespace, the shortest
\* group and a closing fence: it matches at the first fence that has a
\* closing fence after it; group(1).strip() is the text between the two,
\* stripped
FenceMatch(text) ==
    /\ Find(text, FenceMark, 1) # 0
    /\ Find(text, FenceMark, FenceContent(text, Find(text, FenceMark, 1))) # 0

FenceGroup(text, q) == PyStrip(SubSeq(text, q, Find(text, FenceMark, q) - 1))

FenceParse(text) ==
    IF FenceMatch(text)
    THEN json_loads(FenceGroup(text, FenceContent(text, Find(text, FenceMark, 1))))
    ELSE DecodeError

\* r"\{.*\}" with DOTALL: from the first "{" to the last "}" after it
BraceMatch(text) ==
    Find(text, <<"{">>, 1) # 0 /\ FindLast(text, "}") > Find(text, <<"{">>, 1)

BraceParse(text) ==
    IF BraceMatch(text)
    THEN json_loads(SubSeq(text, Find(text, <<"{">>, 1), FindLast(text, "}")))
    ELSE DecodeError

\* The indices re.sub(r",\s*([}\]])", r"\1", text) removes: a comma and the
\* whitespace after it, when a closing bracket follows
Removed(text) ==
    {k \in 1..Len(text) :
        \E c \in 1..k :
            /\ text[c] = ","
            /\ k < SkipChars(text, c + 1, {" ", "\t", "\n", "\r", "\f"})
            /\ SkipChars(text, c + 1, {" ", "\t", "\n", "\r", "\f"}) <= Len(text)
            /\ text[SkipChars(text, c + 1, {" ", "\t", "\n", "\r", "\f"})] \in {"}", "]"}}

AtIndices(text, kept) == SubSeq([i \in 1..Len(kept) |-> text[kept[i]]], 1, Len(kept))

cleaned(text) ==
    AtIndices(text, SelectSeq([i \in 1..Len(text) |-> i], LAMBDA k : k \notin Removed(text)))

CleanedParse(text) == json_loads(cleaned(text))

\* The function as a whole: the value it returns, or the exception it raises
FirstSuccess(text) ==
    IF DirectParse(text).ok THEN DirectParse(text)
    ELSE IF FenceParse(text).ok THEN FenceParse(text)
    ELSE IF BraceParse(text).ok THEN BraceParse(text)
    ELSE CleanedParse(text)

ParseOutcome(r) ==
    IF r.ok THEN [exc |-> "", ret |-> r.val] ELSE [exc |-> "Exception", ret |-> JNull]

parse_llm_response(response) == ParseOutcome(FirstSuccess(PyStrip(response)))

(***************************************************************************)
(* The responses parsed: a prefix, a body and a suffix                     *)
(***************************************************************************)
P_none == <<>>
P_prose == <<"H", "e", "r", "e", ":", " ">>
P_fence_json == <<Grave, Grave, Grave, "j", "s", "o", "n", "\n">>
P_fence == <<Grave, Grave, Grave, "\n">>
P_blank == <<" ", "\n">>
R_object == <<"{", "\"", "a", "\"", ":", " ", "1", "}">>
R_trailing == <<"{", "\"", "a", "\"", ":", " ", "1", ",", "}">>
R_list == <<"[", "1", ",", " ", "2", ",", "]">>
R_prose == <<"n", "o", "t", " ", "j", "s", "o", "n", " ", "a", "t", " ", "a", "l", "l">>
R_two == <<"{", "\"", "a", "\"", ":", " ", "1", "}", " ", "{", "\"", "b", "\"", ":", " ", "2", "}">>
R_nested == <<"{", "\"", "a", "\"", ":", " ", "{", "\"", "b", "\"", ":", " ", "[", "1", ",", "]", "}", "}">>
R_nothing == <<>>
R_number == <<"1">>
R_open == <<"{", "\"", "a", "\"", ":", " ", "1">>
R_spaced == <<"{", "\"", "a", "\"", ":", " ", "1", " ", ",", "\n", "}">>
S_none == <<>>
S_prose == <<" ", "d", "o", "n", "e">>
S_fence == <<"\n", Grave, Grave, Grave>>
S_prose_fence == <<" ", "d", "o", "n", "e", "\n", Grave, Grave, Grave>>
S_brace == <<" ", "}">>

Prefixes == {P_none, P_prose, P_fence_json, P_fence, P_blank}
Bodies == {R_object, R_trailing, R_list, R_prose, R_two, R_nested, R_nothing, R_number, R_open, R_spaced}
Suffixes == {S_none, S_prose, S_fence, S_prose_fence, S_brace}

Responses == {p \o b \o s : p \in Prefixes, b \in Bodies, s \in Suffixes}

\* Attempt that passes on to the next strategy after a success too
AttemptAll(strategy, r, next) ==
    /\ tried' = Append(tried, [strategy |-> strategy, ok |-> r.ok])
    /\ parsePc' = next
    /\ parsed' = IF r.ok THEN r.val ELSE parsed
    /\ UNCHANGED <<response_text, normVars, extrVars, scoreVars, flowVars>>

\* One strategy has run with the result r: a success returns its value, a
\* failure (no match, or JSONDecodeError) passes on to the next strategy
Attempt(strategy, r, next) ==
    /\ tried' = Append(tried, [strategy |-> strategy, ok |-> r.ok])
    /\ parsePc' = IF r.ok THEN "returned" ELSE next
    /\ parsed' = IF r.ok THEN r.val ELSE parsed
    /\ UNCHANGED <<response_text, normVars, extrVars, scoreVars, flowVars>>

\* try: return json.loads(text)
TryDirect ==
    /\ parsePc = "direct"
    /\ Attempt("direct", DirectParse(PyStrip(response_text)), "fence")

\* json_match = re.search(...); if json_match: try: return json.loads(...)
TryFence ==
    /\ parsePc = "fence"
    /\ Attempt("fence", FenceParse(PyStrip(response_text)), "brace")

\* brace_match = re.search(...); if brace_match: try: return json.loads(...)
TryBrace ==
    /\ parsePc = "brace"
    /\ Attempt("brace", BraceParse(PyStrip(response_text)), "cleaned")

\* cleaned = re.sub(...); try: return json.loads(cleaned)
TryCleaned ==
    /\ parsePc = "cleaned"
    /\ Attempt("cleaned", CleanedParse(PyStrip(response_text)), "raise")

\* raise Exception("Failed to parse LLM response as JSON. ...")
RaiseFailure ==
    /\ parsePc = "raise"
    /\ parsePc' = "raised"
    /\ UNCHANGED <<response_text, tried, parsed, normVars, extrVars, scoreVars, flowVars>>

InitParse ==
    /\ response_text \in Responses
    /\ parsePc = "direct"
    /\ tried = <<>>
    /\ parsed = NotParsed
    /\ NormalizerIdle
    /\ ExtractorIdle
    /\ ScorerIdle
    /\ FlowIdle

NextParse == TryDirect \/ TryFence \/ TryBrace \/ TryCleaned \/ RaiseFailure

\* parse_llm_response on the responses, one strategy at a time
SpecParse == InitParse /\ [][NextParse]_vars

(***************************************************************************)
(* Properties of parse_llm_response                                        *)
(***************************************************************************)
C15_Strategies == <<"direct", "fence", "brace", "cleaned">>

C15_Ended == parsePc \in {"returned", "raised"}

\* {"a": 1}
C15_A1 == JDict(<<<<"a">>>>, <<JInt(1)>>)

C15_Examples ==
    /\ (C15_Ended /\ response_text = P_fence_json \o R_object \o S_fence)
          => parsePc = "returned" /\ parsed = C15_A1
    /\ (C15_Ended /\ response_text = R_trailing)
          => parsePc = "returned" /\ parsed = C15_A1
    /\ (C15_Ended /\ response_text = R_prose) => parsePc = "raised"

F_cv_pdf == <<"c", "v", ".", "p", "d", "f">>
F_CV_PDF == <<"C", "V", ".", "P", "D", "F">>
F_cv_txt == <<"c", "v", ".", "t", "x", "t">>
L_pdf == <<".", "p", "d", "f">>
K_resume == <<"r", "e", "s", "u", "m", "e">>
T_padded == <<" ", "p", "y", "t", "h", "o", "n", " ", "j", "a", "v", "a", "\n">>
R_kit == <<"{", "\"", "r", "e", "s", "u", "m", "e", "\"", ":", " ", "{", "\"", "n", "a", "m", "e", "\"", ":", " ", "\"", "A", "n", "n", "\"", "}", ",", " ", "\"", "c", "o", "v", "e", "r", "_", "l", "e", "t", "t", "e", "r", "\"", ":", " ", "{", "}", "}">>
R_infinite == <<"{", "\"", "l", "a", "n", "g", "u", "a", "g", "e", "s", "\"", ":", " ", "[", "{", "\"", "p", "e", "r", "c", "e", "n", "t", "\"", ":", " ", "I", "n", "f", "i", "n", "i", "t", "y", "}", "]", "}">>

\* The requests: with and without a file part, its filename, the form's
\* job_description
Filenames == {<<>>, F_cv_pdf, F_CV_PDF, F_cv_txt}
JobDescriptions == {<<>>, T_blank, T_ppj, T_padded}
Requests ==
    {[has_pdf |-> h, filename |-> f, job_description |-> j] :
        h \in BOOLEAN, f \in Filenames, j \in JobDescriptions}

\* What extract_text_from_pdf returns for the uploaded file
ExtractedTexts == {<<>>, T_blank, T_know}

\* What call_ollama returns
LLMResponses ==
    {<<>>, R_prose, R_object, R_trailing, P_fence_json \o R_object \o S_fence,
     R_list, R_kit, R_infinite}

\* filename.lower().endswith(".pdf")
EndsWithPdf(f) ==
    Len(f) >= 4 /\ [i \in 1..4 |-> Lower(f[Len(f) - 4 + i])] = L_pdf

\* The step ran and the handler goes on
Advance(step, next) ==
    /\ steps' = Append(steps, step)
    /\ flowPc' = next
    /\ UNCHANGED <<status, error>>

\* The step raised: except Exception as e: return jsonify(error), 500
Raise(step) ==
    /\ steps' = Append(steps, step)
    /\ flowPc' = "done"
    /\ status' = 500
    /\ error' = step

\* The step returned jsonify(error), 400
Reject(step) ==
    /\ steps' = Append(steps, step)
    /\ flowPc' = "done"
    /\ status' = 400
    /\ UNCHANGED error

\* The request is valid
Valid(r) ==
    /\ r.has_pdf
    /\ r.filename # <<>>
    /\ EndsWithPdf(r.filename)
    /\ PyStrip(r.job_description) # <<>>

\* The checks before the try block
Validate ==
    /\ flowPc = "validate"
    /\ job_description' = IF request.has_pdf THEN PyStrip(request.job_description)
                                               ELSE job_description
    /\ IF Valid(request) THEN Advance("validate", "save") ELSE Reject("validate")
    /\ UNCHANGED <<route, request, llm_calls, llm_response, resume_data, cv_text, report,
                   normVars, extrVars, parseVars>>

\* pdf_file.save(str(upload_path))
SaveUpload ==
    /\ flowPc = "save"
    /\ Advance("save", "extract") \/ Raise("save")
    /\ UNCHANGED <<route, request, llm_calls, llm_response, resume_data, scoreVars,
                   normVars, extrVars, parseVars>>

\* cv_text = extract_text_from_pdf(...); if not cv_text.strip(): return 400
ExtractText ==
    /\ flowPc = "extract"
    /\ \/ Raise("extract") /\ UNCHANGED cv_text
       \/ \E t \in ExtractedTexts :
             /\ cv_text' = t
             /\ IF PyStrip(t) = <<>> THEN Reject("extract") ELSE Advance("extract", "prompt")
    /\ UNCHANGED <<route, request, llm_calls, llm_response, resume_data, job_description,
                   report, normVars, extrVars, parseVars>>

\* system_prompt = load_system_prompt(); user_prompt = ...
BuildPrompt ==
    /\ flowPc = "prompt"
    /\ Advance("prompt", "llm") \/ Raise("prompt")
    /\ UNCHANGED <<route, request, llm_calls, llm_response, resume_data, scoreVars,
                   normVars, extrVars, parseVars>>

\* llm_response = call_ollama(system_prompt, user_prompt): one request to the
\* LLM, whose failure call_ollama raises as an Exception
CallLLM ==
    /\ flowPc = "llm"
    /\ llm_calls' = llm_calls + 1
    /\ \/ Raise("llm") /\ UNCHANGED llm_response
       \/ \E r \in LLMResponses : llm_response' = r /\ Advance("llm", "parse")
    /\ UNCHANGED <<route, request, resume_data, scoreVars, normVars, extrVars, parseVars>>

\* OnParseError that goes back to the LLM for another response
OnParseErrorRetry ==
    /\ steps' = Append(steps, "parse")
    /\ flowPc' = "llm"
    /\ UNCHANGED <<status, error>>

\* parse_llm_response raised: the handler's except clause answers 500
OnParseError == Raise("parse")

\* The parsed value is resume_data in generate, full_data in generate_jobkit
AfterParse == IF route = "generate" THEN "normalize" ELSE "sections"

\* resume_data = parse_llm_response(llm_response)
ParseResponse ==
    /\ flowPc = "parse"
    /\ IF parse_llm_response(llm_response).exc # ""
       THEN OnParseError /\ UNCHANGED resume_data
       ELSE /\ resume_data' = parse_llm_response(llm_response).ret
            /\ Advance("parse", AfterParse)
    /\ UNCHANGED <<route, request, llm_calls, llm_response, scoreVars, normVars, extrVars,
                   parseVars>>

\* resume_data = full_data.get("resume", full_data), in generate_jobkit: a
\* value that is not a dict has no get (AttributeError)
TakeSections ==
    /\ flowPc = "sections"
    /\ IF IsDict(resume_data)
       THEN /\ resume_data' = Get(resume_data, K_resume, resume_data)
            /\ Advance("sections", "normalize")
       ELSE Raise("sections") /\ UNCHANGED resume_data
    /\ UNCHANGED <<route, request, llm_calls, llm_response, scoreVars, normVars, extrVars,
                   parseVars>>

\* resume_data = normalize_resume_data(resume_data)
NormalizeData ==
    /\ flowPc = "normalize"
    /\ IF normalize_resume_data(resume_data).exc # ""
       THEN Raise("normalize") /\ UNCHANGED resume_data
       ELSE /\ resume_data' = normalize_resume_data(resume_data).ret
            /\ Advance("normalize", "render")
    /\ UNCHANGED <<route, request, llm_calls, llm_response, scoreVars, normVars, extrVars,
                   parseVars>>

\* pdf_path = generate_pdf_from_data(resume_data, output_name)
RenderPdf ==
    /\ flowPc = "render"
    /\ Advance("render", "score") \/ Raise("render")
    /\ UNCHANGED <<route, request, llm_calls, llm_response, resume_data, scoreVars,
                   normVars, extrVars, parseVars>>

\* ats_analysis = compute_ats_score(cv_text, job_description)
ComputeScore ==
    /\ flowPc = "score"
    /\ report' = compute_ats_score(cv_text, job_description)
    /\ Advance("score", "respond")
    /\ UNCHANGED <<route, request, llm_calls, llm_response, resume_data, cv_text,
                   job_description, normVars, extrVars, parseVars>>

\* The upload is removed, an OSError ignored; return jsonify(success)
Respond ==
    /\ flowPc = "respond"
    /\ steps' = Append(steps, "respond")
    /\ flowPc' = "done"
    /\ status' = 200
    /\ UNCHANGED <<error, route, request, llm_calls, llm_response, resume_data, scoreVars,
                   normVars, extrVars, parseVars>>

InitFlow ==
    /\ route \in {"generate", "generate_jobkit"}
    /\ request \in Requests
    /\ flowPc = "validate"
    /\ steps = <<>>
    /\ llm_calls = 0
    /\ status = 0
    /\ error = ""
    /\ llm_response = <<>>
    /\ resume_data = JNull
    /\ NormalizerIdle
    /\ ExtractorIdle
    /\ ScorerIdle
    /\ ParserIdle

NextFlow ==
    \/ Validate \/ SaveUpload \/ ExtractText \/ BuildPrompt \/ CallLLM \/ ParseResponse
    \/ TakeSections \/ NormalizeData \/ RenderPdf \/ ComputeScore \/ Respond

\* One request to /generate or /generate_jobkit
SpecFlow == InitFlow /\ [][NextFlow]_vars

(***************************************************************************)
(* Properties of the request flows                                         *)
(***************************************************************************)
C16_Count(step) == Cardinality({i \in 1..Len(steps) : steps[i] = step})

C16_Pipeline == <<"extract", "llm", "parse", "normalize", "render">>

C16_InPipeline(step) == \E i \in 1..Len(C16_Pipeline) : C16_Pipeline[i] = step

\* C16: the LLM is called at most once per request; when
\* parse_llm_response raises, the request ends with an error response and
\* neither the normalizer nor the PDF renderer nor the scorer runs; on the
\* success path the steps run in the order extract, LLM call, parse,
\* normalize, render.
C16_Flow ==
    /\ llm_calls <= 1
    /\ C16_Count("llm") = llm_calls
    /\ error = "parse" =>
          /\ status = 500 /\ flowPc = "done"
          /\ llm_calls = 1
          /\ steps[Len(steps)] = "parse"
          /\ C16_Count("parse") = 1
          /\ C16_Count("normalize") = 0
          /\ C16_Count("render") = 0
          /\ C16_Count("score") = 0
          /\ report = NoReport
    /\ status = 200 => SelectSeq(steps, C16_InPipeline) = C16_Pipeline
    /\ status # 0 => flowPc = "done"

\* The LLM has answered with a text no strategy parses, and the request has
\* ended with the error response
C16_ParseFailedState ==
    /\ error = "parse"
    /\ status = 500
    /\ llm_calls = 1
    /\ parse_llm_response(llm_response).exc # ""
    /\ Len(steps) >= 2 /\ steps[Len(steps) - 1] = "llm"

====
